---- MODULE Spec2Model ----
(***************************************************************************)
(* Tank battle engine: the tick orchestrator (GameLoop), the physics and   *)
(* combat resolver (physics.py) and the visibility engine (visibility.py). *)
(*                                                                         *)
(* Units.  Positions and sizes are kept in hundredths of a map unit, so    *)
(* that half sizes (2.5) and terrain speed modifiers (0.7, 0.95) stay      *)
(* integers.  Angles are whole degrees.  Floating point is taken as exact  *)
(* real arithmetic.                                                        *)
(***************************************************************************)
EXTENDS Integers, Sequences, FiniteSets, TLC

VARIABLES
    gstate,             \* GameCore: "Idle", "Initializing", "Running", "Ended"
    tick,               \* GameCore: current tick
    tick_info,          \* GameCore.process_tick()'s answer for the tick in flight
    team_counts,        \* GameCore: live tanks per team, as last reported to it
    winner,             \* GameCore.end_game(): winning team, 0 for a draw, -1 before
    pc,                 \* position of the driver inside run_game / the tick
    tanks,              \* GameLoop.tanks: id -> tank, the live collection
    scoreboards,        \* GameLoop.scoreboards: id -> [team, damage_dealt, tanks_killed]
    last_attacker,      \* GameLoop.last_attacker: id -> id (0: none)
    sensor_data_map,    \* the tick's sensor snapshots, id -> snapshot
    agent_actions,      \* the tick's commands, id -> command (absent: no command)
    map_info,           \* obstacle_list, powerup_list, terrain_list, size
    last_shot_times,    \* physics: id -> time of the last shot (-999: never)
    current_time,       \* physics: the clock handed to process_physics_tick
    results,            \* what the last process_physics_tick returned
    phys,               \* locals of the last process_physics_tick, kept for inspection
    removed,            \* ids deleted from GameLoop.tanks so far
    init_ok,            \* what initialize_game returned ("none" before the call)
    shot_log            \* id -> the shots that left the barrel, oldest first

vars == << gstate, tick, tick_info, team_counts, winner, pc, tanks, scoreboards,
           last_attacker, sensor_data_map, agent_actions, map_info,
           last_shot_times, current_time, results, phys, removed, init_ok, shot_log >>

----------------------------------------------------------------------------
(* Bounds of the model *)

\* number of tanks spawned per team (TEAM_A_NBR, TEAM_B_NBR are configurable)
TeamSize == 1

\* the tick counter is read only to compare it with the sudden death
\* threshold; it stops counting here
MaxTick == 4

\* number of process_physics_tick calls driven by the physics harness
MaxTime == 3

\* number of process_physics_tick calls on the further layouts
MaxDrill == 2

----------------------------------------------------------------------------
(* Small helpers *)

Abs(a) == IF a < 0 THEN -a ELSE a

Min(a, b) == IF a <= b THEN a ELSE b

Max(a, b) == IF a >= b THEN a ELSE b

\* a / b rounded toward zero
DivTrunc(a, b) == IF a >= 0 THEN a \div b ELSE -((-a) \div b)

\* the ids of a collection in iteration order (insertion order = ascending id)
RECURSIVE SeqOfSet(_)
SeqOfSet(S) ==
    IF S = {} THEN << >>
    ELSE LET m == CHOOSE x \in S : \A y \in S : x <= y
         IN  << m >> \o SeqOfSet(S \ {m})

Ids(ts) == SeqOfSet(DOMAIN ts)

----------------------------------------------------------------------------
(* Entity tables *)

AmmoTypes == {"HEAVY", "LIGHT", "LONG_DISTANCE"}

AmmoValue(a) ==
    CASE a = "HEAVY" -> -40
      [] a = "LIGHT" -> -20
      [] OTHER       -> -25

AmmoRange(a) ==
    CASE a = "HEAVY" -> 5
      [] a = "LIGHT" -> 10
      [] OTHER       -> 20

AmmoReloadTime(a) ==
    CASE a = "HEAVY" -> 2
      [] a = "LIGHT" -> 1
      [] OTHER       -> 2

TankTypes == {"LIGHT", "HEAVY"}

VisionAngle(ty) == IF ty = "LIGHT" THEN 120 ELSE 90

VisionRange(ty) == IF ty = "LIGHT" THEN 15 ELSE 10

TopSpeed(ty) == IF ty = "LIGHT" THEN 8 ELSE 5

BarrelSpinRate(ty) == IF ty = "LIGHT" THEN 180 ELSE 60

HeadingSpinRate(ty) == IF ty = "LIGHT" THEN 120 ELSE 60

MaxHp(ty) == IF ty = "LIGHT" THEN 80 ELSE 150

MaxShield(ty) == IF ty = "LIGHT" THEN 30 ELSE 100

BaseAmmo(ty) ==
    IF ty = "LIGHT"
    THEN [a \in AmmoTypes |-> CASE a = "LIGHT" -> 20 [] a = "LONG_DISTANCE" -> 5 [] OTHER -> 0]
    ELSE [a \in AmmoTypes |-> CASE a = "HEAVY" -> 15 [] a = "LIGHT" -> 10 [] OTHER -> 0]

MaxAmmo(ty) ==
    IF ty = "LIGHT"
    THEN [a \in AmmoTypes |-> CASE a = "HEAVY" -> 1 [] a = "LIGHT" -> 15 [] OTHER -> 2]
    ELSE [a \in AmmoTypes |-> CASE a = "HEAVY" -> 5 [] a = "LIGHT" -> 10 [] OTHER -> 2]

\* Tank.size, in hundredths
TankSize == << 500, 500 >>

\* Obstacle.size, in hundredths
ObstacleSize == << 1000, 1000 >>

\* PowerUpData.size, in hundredths
PowerUpSize == << 200, 200 >>

PowerUpValue(p) ==
    CASE p = "MEDKIT"     -> 50
      [] p = "SHIELD"     -> 20
      [] p = "OVERCHARGE" -> 2
      [] p = "AMMO_HEAVY" -> 2
      [] p = "AMMO_LIGHT" -> 5
      [] OTHER            -> 2

\* movement_speed_modifier, in percent
TerrainModifier(ty) ==
    CASE ty = "Grass"       -> 100
      [] ty = "Road"        -> 150
      [] ty = "Swamp"       -> 40
      [] ty = "PotholeRoad" -> 95
      [] OTHER              -> 70

TerrainDamage(ty) ==
    CASE ty = "PotholeRoad" -> 1
      [] ty = "Water"       -> 2
      [] OTHER              -> 0

IsDestructible(oty) == oty = "TREE"

\* A new tank of archetype ty (hp and shield start at the archetype's maximum)
NewTank(ty, tm, px, py) ==
    [ team |-> tm, tank_type |-> ty, hp |-> MaxHp(ty), shield |-> MaxShield(ty),
      x |-> px, y |-> py, heading |-> 0, barrel_angle |-> 0,
      ammo |-> BaseAmmo(ty), ammo_loaded |-> "NONE", is_overcharged |-> FALSE ]

is_alive(t) == t.hp > 0

----------------------------------------------------------------------------
(* Geometry *)

RECURSIVE NormUp(_)
NormUp(a) == IF a < -180 THEN NormUp(a + 360) ELSE a

RECURSIVE NormDown(_)
NormDown(a) == IF a > 180 THEN NormDown(a - 360) ELSE a

normalize_angle(a) == NormUp(NormDown(a))

\* square of calculate_distance
Dist2(x1, y1, x2, y2) == (x2 - x1) * (x2 - x1) + (y2 - y1) * (y2 - y1)

\* distance > r map units
FartherThan(x1, y1, x2, y2, r) == Dist2(x1, y1, x2, y2) > (r * 100) * (r * 100)

rectangles_overlap(x1, y1, size1, x2, y2, size2) ==
    LET half_w1 == size1[1] \div 2
        half_h1 == size1[2] \div 2
        half_w2 == size2[1] \div 2
        half_h2 == size2[2] \div 2
        left1   == x1 - half_w1
        right1  == x1 + half_w1
        top1    == y1 - half_h1
        bottom1 == y1 + half_h1
        left2   == x2 - half_w2
        right2  == x2 + half_w2
        top2    == y2 - half_h2
        bottom2 == y2 + half_h2
    IN  ~(right1 <= left2 \/ left1 >= right2 \/ bottom1 <= top2 \/ top1 >= bottom2)

\* tan(k degrees) * 10^4 for k = 0 .. 89, at index k + 1
Tan1e4 ==
  << 0, 175, 349, 524, 699, 875, 1051, 1228, 1405, 1584, 1763, 1944, 2126,
     2309, 2493, 2679, 2867, 3057, 3249, 3443, 3640, 3839, 4040, 4245,
     4452, 4663, 4877, 5095, 5317, 5543, 5774, 6009, 6249, 6494, 6745,
     7002, 7265, 7536, 7813, 8098, 8391, 8693, 9004, 9325, 9657, 10000,
     10355, 10724, 11106, 11504, 11918, 12349, 12799, 13270, 13764, 14281,
     14826, 15399, 16003, 16643, 17321, 18040, 18807, 19626, 20503, 21445,
     22460, 23559, 24751, 26051, 27475, 29042, 30777, 32709, 34874, 37321,
     40108, 43315, 47046, 51446, 56713, 63138, 71154, 81443, 95144,
     114301, 143007, 190811, 286363, 572900 >>

\* atan of ady / adx in the first quadrant (adx > 0, ady >= 0): its whole
\* degrees and whether it is a whole number of degrees
AtanQ1(ady, adx) ==
    LET k == CHOOSE j \in 0..89 :
                 /\ Tan1e4[j + 1] * adx <= ady * 10000
                 /\ (j = 89 \/ Tan1e4[j + 2] * adx > ady * 10000)
    IN  [deg |-> k, exact |-> (ady = 0 \/ (k = 45 /\ ady = adx))]

\* math.degrees(math.atan2(dy, dx)): deg is the floor of the angle, exact says
\* that the angle equals deg
Atan2Deg(dy, dx) ==
    IF dx = 0
    THEN [deg |-> (IF dy > 0 THEN 90 ELSE IF dy < 0 THEN -90 ELSE 0), exact |-> TRUE]
    ELSE LET q == AtanQ1(Abs(dy), Abs(dx))
         IN  CASE dx > 0 /\ dy >= 0 -> q
               [] dx < 0 /\ dy >= 0 ->
                    IF q.exact THEN [deg |-> 180 - q.deg, exact |-> TRUE]
                    ELSE [deg |-> 179 - q.deg, exact |-> FALSE]
               [] dx < 0 /\ dy < 0  -> [deg |-> q.deg - 180, exact |-> q.exact]
               [] OTHER ->
                    IF q.exact THEN [deg |-> -q.deg, exact |-> TRUE]
                    ELSE [deg |-> -q.deg - 1, exact |-> FALSE]

\* normalize_angle on a value strictly between m and m + 1: the whole number
\* just below the result
RECURSIVE NormFloor(_)
NormFloor(m) ==
    IF m >= 180 THEN NormFloor(m - 360)
    ELSE IF m <= -181 THEN NormFloor(m + 360)
    ELSE m

\* abs(normalize_angle(angle - direction)) <= limit, for an angle given as
\* Atan2Deg gives it and whole numbers direction and limit
AngleDiffWithin(angle, direction, limit) ==
    LET m == angle.deg - direction
    IN  IF angle.exact
        THEN Abs(normalize_angle(m)) <= limit
        ELSE \* the difference lies strictly between m and m + 1
             LET n == NormFloor(m)
             IN  -limit <= n /\ n + 1 <= limit

\* cos and sin of a heading, times 1000 (headings of the model are multiples
\* of 30 degrees)
Cos1000(h) ==
    LET a == Abs(normalize_angle(h))
    IN  CASE a = 0   -> 1000
          [] a = 30  -> 866
          [] a = 60  -> 500
          [] a = 90  -> 0
          [] a = 120 -> -500
          [] a = 150 -> -866
          [] OTHER   -> -1000

Sin1000(h) == Cos1000(h - 90)

----------------------------------------------------------------------------
(* physics.py: rotation and movement *)

get_terrain_at_position(px, py, terrains) ==
    LET hit == { k \in 1..Len(terrains) :
                   rectangles_overlap(px, py, << 100, 100 >>,
                                      terrains[k].x, terrains[k].y, terrains[k].size) }
    IN  IF hit = {} THEN 0 ELSE CHOOSE k \in hit : \A j \in hit : k <= j

rotate_heading(tank, target_heading, delta_time) ==
    LET max_rotation == HeadingSpinRate(tank.tank_type) * delta_time
        angle_diff   == normalize_angle(target_heading - tank.heading)
        turned       == IF Abs(angle_diff) <= max_rotation
                        THEN target_heading
                        ELSE tank.heading
                             + (IF angle_diff > 0 THEN max_rotation ELSE -max_rotation)
    IN  [tank EXCEPT !.heading = normalize_angle(turned)]

rotate_barrel(tank, target_barrel_angle, delta_time) ==
    LET max_rotation == BarrelSpinRate(tank.tank_type) * delta_time
        angle_diff   == normalize_angle(target_barrel_angle - tank.barrel_angle)
        turned       == IF Abs(angle_diff) <= max_rotation
                        THEN target_barrel_angle
                        ELSE tank.barrel_angle
                             + (IF angle_diff > 0 THEN max_rotation ELSE -max_rotation)
    IN  [tank EXCEPT !.barrel_angle = normalize_angle(turned)]

\* the new position and the terrain damage
move_tank(tank, desired_speed, terrains, delta_time) ==
    LET top   == TopSpeed(tank.tank_type)
        speed == Max(-top, Min(desired_speed, top))
        k     == get_terrain_at_position(tank.x, tank.y, terrains)
        terrain_modifier == IF k = 0 THEN 100 ELSE TerrainModifier(terrains[k].terrain_type)
        terrain_damage   == IF k = 0 THEN 0 ELSE TerrainDamage(terrains[k].terrain_type)
        effective_speed  == speed * terrain_modifier
    IN  [ x |-> tank.x + DivTrunc(Cos1000(tank.heading) * effective_speed * delta_time, 1000),
          y |-> tank.y + DivTrunc(Sin1000(tank.heading) * effective_speed * delta_time, 1000),
          terrain_damage |-> terrain_damage ]

----------------------------------------------------------------------------
(* physics.py: damage and power-ups *)

\* a faulty variant: the hull takes the damage before the shield
ApplyDamageHullFirst(tank, damage) ==
    LET hull_absorb == Min(Max(tank.hp, 0), damage)
        hit == [tank EXCEPT !.hp = tank.hp - hull_absorb,
                            !.shield = tank.shield - (damage - hull_absorb)]
    IN  [tank |-> hit, destroyed |-> hit.hp <= 0]

apply_damage(tank, damage) ==
    LET shield_absorb    == IF tank.shield > 0 THEN Min(tank.shield, damage) ELSE 0
        remaining_damage == damage - shield_absorb
        hit == [tank EXCEPT !.shield = tank.shield - shield_absorb,
                            !.hp     = tank.hp - remaining_damage]
    IN  [tank |-> hit, destroyed |-> hit.hp <= 0]

PowerUpAmmoType(ptype) ==
    CASE ptype = "AMMO_HEAVY" -> "HEAVY"
      [] ptype = "AMMO_LIGHT" -> "LIGHT"
      [] OTHER                -> "LONG_DISTANCE"

\* a faulty variant: the Medkit and the Shield are added without a ceiling
ApplyPowerupUnclamped(tank, powerup) ==
    LET ptype == powerup.powerup_type
        value == PowerUpValue(ptype)
    IN  CASE ptype = "MEDKIT" -> [tank EXCEPT !.hp = tank.hp + value]
          [] ptype = "SHIELD" -> [tank EXCEPT !.shield = tank.shield + value]
          [] ptype = "OVERCHARGE" -> [tank EXCEPT !.is_overcharged = TRUE]
          [] OTHER -> tank

apply_powerup(tank, powerup) ==
    LET ptype == powerup.powerup_type
        value == PowerUpValue(ptype)
    IN  CASE ptype = "MEDKIT" ->
               [tank EXCEPT !.hp = Min(tank.hp + value, MaxHp(tank.tank_type))]
          [] ptype = "SHIELD" ->
               [tank EXCEPT !.shield = Min(tank.shield + value, MaxShield(tank.tank_type))]
          [] ptype = "OVERCHARGE" ->
               [tank EXCEPT !.is_overcharged = TRUE]
          [] OTHER ->
               LET ammo_type == PowerUpAmmoType(ptype)
               IN  [tank EXCEPT !.ammo =
                        [tank.ammo EXCEPT ![ammo_type] =
                            Min(@ + value, MaxAmmo(tank.tank_type)[ammo_type])]]

\* index of the first power-up the tank overlaps, 0 if none
check_powerup_pickup(tank, powerups) ==
    LET hit == { k \in 1..Len(powerups) :
                   rectangles_overlap(tank.x, tank.y, TankSize,
                                      powerups[k].x, powerups[k].y, PowerUpSize) }
    IN  IF hit = {} THEN 0 ELSE CHOOSE k \in hit : \A j \in hit : k <= j

RemoveAt(s, k) == [j \in 1..(Len(s) - 1) |-> IF j < k THEN s[j] ELSE s[j + 1]]

----------------------------------------------------------------------------
(* physics.py: collisions *)

\* a faulty variant: the centre of the tank is tested, not its footprint
CheckTankBoundaryByCentre(tank, map_size) ==
    \/ tank.x < 0
    \/ tank.x > map_size[1]
    \/ tank.y < 0
    \/ tank.y > map_size[2]

check_tank_boundary_collision(tank, map_size) ==
    LET half_w == TankSize[1] \div 2
        half_h == TankSize[2] \div 2
    IN  \/ tank.x - half_w < 0
        \/ tank.x + half_w > map_size[1]
        \/ tank.y - half_h < 0
        \/ tank.y + half_h > map_size[2]

\* a faulty variant: an obstacle that is no longer alive still stops the tank
CheckTankObstacleCollisionWithDead(tank, obstacles) ==
    LET hit == { k \in 1..Len(obstacles) :
                   rectangles_overlap(tank.x, tank.y, TankSize,
                                      obstacles[k].x, obstacles[k].y, ObstacleSize) }
    IN  IF hit = {} THEN 0 ELSE CHOOSE k \in hit : \A j \in hit : k <= j

\* index of the first alive obstacle the tank overlaps, 0 if none
check_tank_obstacle_collision(tank, obstacles) ==
    LET hit == { k \in 1..Len(obstacles) :
                   /\ obstacles[k].is_alive
                   /\ rectangles_overlap(tank.x, tank.y, TankSize,
                                         obstacles[k].x, obstacles[k].y, ObstacleSize) }
    IN  IF hit = {} THEN 0 ELSE CHOOSE k \in hit : \A j \in hit : k <= j

check_tank_tank_collision(ts, i, j) ==
    /\ i # j
    /\ rectangles_overlap(ts[i].x, ts[i].y, TankSize, ts[j].x, ts[j].y, TankSize)

NoCollision ==
    [ has_collision |-> FALSE, collision_type |-> "NONE", damage_to_tank1 |-> 0,
      damage_to_tank2 |-> 0, obstacle_destroyed |-> 0 ]

\* the tanks after the revert, and the CollisionResult.  other is the id of the
\* other tank (0: none), obstacle the id of the obstacle (0: none)
resolve_collision(ts, i, previous_position, collision_type, other, obstacle) ==
    LET At(t) == [t EXCEPT !.x = previous_position[1], !.y = previous_position[2]]
        back == [ts EXCEPT ![i] = At(ts[i])]
        both == IF collision_type = "TANK_TANK_MOVING" /\ other # 0
                THEN [back EXCEPT ![other] = At(back[other])]
                ELSE back
        d1 == CASE collision_type = "TANK_TANK_MOVING" -> 25
                [] collision_type = "TANK_TANK_STATIC" -> 10
                [] collision_type = "TANK_WALL"        -> 25
                [] collision_type = "TANK_TREE"        -> 10
                [] collision_type = "TANK_SPIKE"       -> 0
                [] OTHER                               -> 25
        d2 == CASE collision_type = "TANK_TANK_MOVING" -> 25
                [] collision_type = "TANK_TANK_STATIC" -> 25
                [] OTHER                               -> 0
    IN  [ ts |-> both,
          result |-> [ has_collision |-> TRUE, collision_type |-> collision_type,
                       damage_to_tank1 |-> d1, damage_to_tank2 |-> d2,
                       obstacle_destroyed |->
                           IF collision_type = "TANK_TREE" THEN obstacle ELSE 0 ] ]

\* a faulty variant: the other tanks are looked at before the boundary
CheckAllCollisionsTankFirst(ts, i, previous_position, obstacles, map_size, moving_tanks) ==
    LET others == { j \in DOMAIN ts : check_tank_tank_collision(ts, i, j) }
        k      == check_tank_obstacle_collision(ts[i], obstacles)
    IN  IF others # {}
        THEN LET other_tank == CHOOSE j \in others : \A j2 \in others : j <= j2
             IN  resolve_collision(ts, i, previous_position,
                     IF i \in moving_tanks /\ other_tank \in moving_tanks
                     THEN "TANK_TANK_MOVING" ELSE "TANK_TANK_STATIC",
                     other_tank, 0)
        ELSE IF check_tank_boundary_collision(ts[i], map_size)
        THEN resolve_collision(ts, i, previous_position, "TANK_BOUNDARY", 0, 0)
        ELSE IF k # 0
        THEN resolve_collision(ts, i, previous_position,
                 CASE obstacles[k].obstacle_type = "WALL" -> "TANK_WALL"
                   [] obstacles[k].obstacle_type = "TREE" -> "TANK_TREE"
                   [] OTHER                               -> "TANK_SPIKE",
                 0, obstacles[k].id)
        ELSE [ts |-> ts, result |-> NoCollision]

check_all_collisions(ts, i, previous_position, obstacles, map_size, moving_tanks) ==
    LET others == { j \in DOMAIN ts : check_tank_tank_collision(ts, i, j) }
        k      == check_tank_obstacle_collision(ts[i], obstacles)
    IN  IF check_tank_boundary_collision(ts[i], map_size)
        THEN resolve_collision(ts, i, previous_position, "TANK_BOUNDARY", 0, 0)
        ELSE IF others # {}
        THEN LET other_tank == CHOOSE j \in others : \A j2 \in others : j <= j2
             IN  resolve_collision(ts, i, previous_position,
                     IF i \in moving_tanks /\ other_tank \in moving_tanks
                     THEN "TANK_TANK_MOVING" ELSE "TANK_TANK_STATIC",
                     other_tank, 0)
        ELSE IF k # 0
        THEN resolve_collision(ts, i, previous_position,
                 CASE obstacles[k].obstacle_type = "WALL" -> "TANK_WALL"
                   [] obstacles[k].obstacle_type = "TREE" -> "TANK_TREE"
                   [] OTHER                               -> "TANK_SPIKE",
                 0, obstacles[k].id)
        ELSE [ts |-> ts, result |-> NoCollision]

----------------------------------------------------------------------------------------------------------------------------------------
(* physics.py: shots *)

\* a faulty variant: the time since the last shot is not looked at
CanFireWithoutReload(tank, last_shot, time) ==
    IF tank.ammo_loaded = "NONE" THEN FALSE
    ELSE tank.ammo[tank.ammo_loaded] > 0

\* a faulty variant: the count of the loaded type is not looked at
CanFireEmpty(tank, last_shot, time) ==
    IF tank.ammo_loaded = "NONE" THEN FALSE
    ELSE (time - last_shot) >= AmmoReloadTime(tank.ammo_loaded)

can_fire(tank, last_shot, time) ==
    IF tank.ammo_loaded = "NONE" THEN FALSE
    ELSE IF tank.ammo[tank.ammo_loaded] <= 0 THEN FALSE
    ELSE (time - last_shot) >= AmmoReloadTime(tank.ammo_loaded)

\* fire_projectile returned None
NoHit ==
    [ is_hit |-> FALSE, hit_tank_id |-> 0, hit_obstacle_id |-> 0, damage_dealt |-> 0,
      hit_x |-> 0, hit_y |-> 0 ]

\* the least element of a set of indices or ids: the first in list order
FirstOf(S) == CHOOSE k1 \in S : \A k2 \in S : k1 <= k2

\* the target is within the ammo's range and within 5 degrees of the shot
InLineOfFire(tank, tx, ty, ammo_range, shoot_direction) ==
    /\ ~FartherThan(tank.x, tank.y, tx, ty, ammo_range)
    /\ AngleDiffWithin(Atan2Deg(ty - tank.y, tx - tank.x), shoot_direction, 5)

TankDist2(ts, i, j) == Dist2(ts[i].x, ts[i].y, ts[j].x, ts[j].y)

\* the tanks the shot of i can reach; the dead ones are not skipped
Candidates(ts, i, ammo_range, shoot_direction) ==
    { j \in DOMAIN ts :
        /\ j # i
        /\ InLineOfFire(ts[i], ts[j].x, ts[j].y, ammo_range, shoot_direction) }

\* the nearest of them; the strict "<" keeps the first of the nearest (0: none)
Nearest(ts, i, cand) ==
    IF cand = {} THEN 0
    ELSE CHOOSE j \in cand :
           \A j2 \in cand :
              \/ TankDist2(ts, i, j) < TankDist2(ts, i, j2)
              \/ TankDist2(ts, i, j) = TankDist2(ts, i, j2) /\ j <= j2

TankHit(ts, best, base_damage) ==
    IF best = 0 THEN NoHit
    ELSE [ is_hit |-> TRUE, hit_tank_id |-> best, hit_obstacle_id |-> 0,
           damage_dealt |-> base_damage, hit_x |-> ts[best].x, hit_y |-> ts[best].y ]

\* the alive obstacles in the line of fire that are closer than the tank hit
Blocking(ts, i, obstacles, ammo_range, shoot_direction, best) ==
    { k \in 1..Len(obstacles) :
        /\ obstacles[k].is_alive
        /\ InLineOfFire(ts[i], obstacles[k].x, obstacles[k].y, ammo_range, shoot_direction)
        /\ \/ best = 0
           \/ Dist2(ts[i].x, ts[i].y, obstacles[k].x, obstacles[k].y) < TankDist2(ts, i, best) }

\* a tree is hit and named; anything else only stops the projectile
ObstacleHit(o) ==
    [ is_hit |-> TRUE, hit_tank_id |-> 0,
      hit_obstacle_id |-> IF IsDestructible(o.obstacle_type) THEN o.id ELSE 0,
      damage_dealt |-> 0, hit_x |-> o.x, hit_y |-> o.y ]

\* the obstacle loop returns at the first blocking obstacle of the list
RayCast(tank_hit, blocking, obstacles) ==
    IF blocking = {} THEN tank_hit ELSE ObstacleHit(obstacles[FirstOf(blocking)])

FindHitAlong(ts, i, obstacles, base_damage, ammo_range, shoot_direction, best) ==
    RayCast(TankHit(ts, best, base_damage),
            Blocking(ts, i, obstacles, ammo_range, shoot_direction, best), obstacles)

\* the ray cast of fire_projectile: the ProjectileHit, or NoHit
FindHit(ts, i, obstacles, base_damage) ==
    FindHitAlong(ts, i, obstacles, base_damage, AmmoRange(ts[i].ammo_loaded),
                 ts[i].heading + ts[i].barrel_angle,
                 Nearest(ts, i, Candidates(ts, i, AmmoRange(ts[i].ammo_loaded),
                                           ts[i].heading + ts[i].barrel_angle)))

\* a faulty variant: an overcharged shot is no stronger
BaseDamageUndoubled(tank) ==
    Abs(AmmoValue(tank.ammo_loaded))

BaseDamage(tank) ==
    Abs(AmmoValue(tank.ammo_loaded)) * (IF tank.is_overcharged THEN 2 ELSE 1)

\* the shooter after the shot: overcharge spent, one round less
Discharge(tank) ==
    [tank EXCEPT !.is_overcharged = FALSE,
                 !.ammo = [tank.ammo EXCEPT ![tank.ammo_loaded] = @ - 1]]

\* fired: the shot left the barrel; ts, last_shot: the state after the call
fire_projectile(ts, i, obstacles, time, last_shot) ==
    IF ~can_fire(ts[i], last_shot[i], time)
    THEN [fired |-> FALSE, ts |-> ts, last_shot |-> last_shot, hit |-> NoHit]
    ELSE [ fired |-> TRUE,
           ts |-> [ts EXCEPT ![i] = Discharge(ts[i])],
           last_shot |-> [last_shot EXCEPT ![i] = time],
           hit |-> FindHit([ts EXCEPT ![i] = Discharge(ts[i])], i, obstacles,
                           BaseDamage(ts[i])) ]

KillObstacle(obstacles, oid) ==
    [k \in 1..Len(obstacles) |->
        IF obstacles[k].id = oid THEN [obstacles[k] EXCEPT !.is_alive = FALSE]
        ELSE obstacles[k]]

----------------------------------------------------------------------------
(* physics.py: process_physics_tick, phase by phase.  w is the world the call
   works on: ts, obstacles, powerups, last_shot, the results under
   construction (res) and the call's locals (moving, prev, shots ...). *)

HasAction(actions, i) == i \in DOMAIN actions

\* apply_damage on tank id inside the call: dmg is what apply_damage gave
Damaged(w, id, dmg) ==
    [w EXCEPT !.ts = [w.ts EXCEPT ![id] = dmg.tank],
              !.res.destroyed_tanks = IF dmg.destroyed
                                      THEN Append(w.res.destroyed_tanks, id)
                                      ELSE w.res.destroyed_tanks]

\* the obstacle with id oid is taken off the map (0: none)
ObstacleDown(w, oid) ==
    IF oid = 0 THEN w
    ELSE [w EXCEPT !.obstacles = KillObstacle(w.obstacles, oid),
                   !.res.destroyed_obstacles = Append(w.res.destroyed_obstacles, oid)]

\* 1. one tank's turn in the rotation phase
RotateStep(w, i, actions, delta_time) ==
    IF w.ts[i].hp <= 0 \/ ~HasAction(actions, i) THEN w
    ELSE [w EXCEPT !.ts = [w.ts EXCEPT ![i] =
             rotate_barrel(
                 rotate_heading(w.ts[i], actions[i].heading_rotation_angle, delta_time),
                 actions[i].barrel_rotation_angle, delta_time)]]

RECURSIVE RotatePhase(_, _, _, _)
RotatePhase(w, ids, actions, delta_time) ==
    IF ids = << >> THEN w
    ELSE RotatePhase(RotateStep(w, Head(ids), actions, delta_time), Tail(ids),
                     actions, delta_time)

\* the hit of a shot: recorded, its damage applied at once, a hit tree felled
ApplyHit(w, hit) ==
    ObstacleDown(
        IF hit.hit_tank_id = 0
        THEN [w EXCEPT !.res.projectile_hits = Append(w.res.projectile_hits, hit)]
        ELSE Damaged([w EXCEPT !.res.projectile_hits = Append(w.res.projectile_hits, hit)],
                     hit.hit_tank_id,
                     apply_damage(w.ts[hit.hit_tank_id], hit.damage_dealt)),
        hit.hit_obstacle_id)

\* f is what fire_projectile gave for tank i
AfterShot(w, i, f) ==
    IF ~f.fired THEN w
    ELSE IF ~f.hit.is_hit
    THEN [w EXCEPT !.ts = f.ts, !.last_shot = f.last_shot,
                   !.shots = Append(w.shots, [shooter |-> i, hit |-> f.hit])]
    ELSE ApplyHit([w EXCEPT !.ts = f.ts, !.last_shot = f.last_shot,
                            !.shots = Append(w.shots, [shooter |-> i, hit |-> f.hit])],
                  f.hit)

\* a faulty variant: the tank fires whether its command asks for it or not
FireStepUnasked(w, i, actions, time) ==
    IF w.ts[i].hp <= 0 \/ ~HasAction(actions, i) THEN w
    ELSE AfterShot(w, i, fire_projectile(w.ts, i, w.obstacles, time, w.last_shot))

\* 2. one tank's turn in the shots phase
FireStep(w, i, actions, time) ==
    IF w.ts[i].hp <= 0 \/ ~HasAction(actions, i) THEN w
    ELSE IF ~actions[i].should_fire THEN w
    ELSE AfterShot(w, i, fire_projectile(w.ts, i, w.obstacles, time, w.last_shot))

RECURSIVE FirePhase(_, _, _, _)
FirePhase(w, ids, actions, time) ==
    IF ids = << >> THEN w
    ELSE FirePhase(FireStep(w, Head(ids), actions, time), Tail(ids), actions, time)

TerrainHurt(w, i, terrain_damage) ==
    IF terrain_damage > 0 THEN Damaged(w, i, apply_damage(w.ts[i], terrain_damage))
    ELSE w

\* m is what move_tank gave for tank i
MoveTo(w, i, m) ==
    TerrainHurt([w EXCEPT !.prev = (i :> << w.ts[i].x, w.ts[i].y >>) @@ w.prev,
                          !.moving = w.moving \cup {i},
                          !.ts = [w.ts EXCEPT ![i] = [w.ts[i] EXCEPT !.x = m.x, !.y = m.y]]],
                i, m.terrain_damage)

\* a faulty variant: a tank without a command drives on at full speed
MoveStepCoasting(w, i, actions, delta_time) ==
    IF w.ts[i].hp <= 0 THEN w
    ELSE IF ~HasAction(actions, i)
    THEN MoveTo(w, i, move_tank(w.ts[i], TopSpeed(w.ts[i].tank_type), w.terrains, delta_time))
    ELSE IF actions[i].move_speed = 0 THEN w
    ELSE MoveTo(w, i, move_tank(w.ts[i], actions[i].move_speed, w.terrains, delta_time))

\* 3. one tank's turn in the movement phase
MoveStep(w, i, actions, delta_time) ==
    IF w.ts[i].hp <= 0 \/ ~HasAction(actions, i) THEN w
    ELSE IF actions[i].move_speed = 0 THEN w
    ELSE MoveTo(w, i, move_tank(w.ts[i], actions[i].move_speed, w.terrains, delta_time))

RECURSIVE MovePhase(_, _, _, _)
MovePhase(w, ids, actions, delta_time) ==
    IF ids = << >> THEN w
    ELSE MovePhase(MoveStep(w, Head(ids), actions, delta_time), Tail(ids), actions, delta_time)

CollisionHurt(w, i, damage) ==
    IF damage > 0 THEN Damaged(w, i, apply_damage(w.ts[i], damage)) ELSE w

\* c is what check_all_collisions gave for tank i: only damage_to_tank1 is
\* applied, to tank i
Collide(w, i, c) ==
    IF ~c.result.has_collision THEN w
    ELSE ObstacleDown(
             CollisionHurt([w EXCEPT !.ts = c.ts,
                                     !.res.collisions = Append(w.res.collisions, c.result),
                                     !.collided = Append(w.collided, i)],
                           i, c.result.damage_to_tank1),
             c.result.obstacle_destroyed)

\* 4. one tank's turn in the collision phase
CollisionStep(w, i) ==
    IF w.ts[i].hp <= 0 \/ i \notin w.moving THEN w
    ELSE Collide(w, i, check_all_collisions(w.ts, i, w.prev[i], w.obstacles, w.size,
                                            w.moving))

RECURSIVE CollisionPhase(_, _)
CollisionPhase(w, ids) ==
    IF ids = << >> THEN w
    ELSE CollisionPhase(CollisionStep(w, Head(ids)), Tail(ids))

\* k is the index check_powerup_pickup gave for tank i
Pickup(w, i, k) ==
    IF k = 0 THEN w
    ELSE [w EXCEPT !.ts = [w.ts EXCEPT ![i] = apply_powerup(w.ts[i], w.powerups[k])],
                   !.powerups = RemoveAt(w.powerups, k),
                   !.res.picked_powerups =
                       Append(w.res.picked_powerups,
                              [tank_id |-> i, powerup |-> w.powerups[k]])]

\* 5. one tank's turn in the power-up phase
PickupStep(w, i) ==
    IF w.ts[i].hp <= 0 THEN w
    ELSE Pickup(w, i, check_powerup_pickup(w.ts[i], w.powerups))

RECURSIVE PickupPhase(_, _)
PickupPhase(w, ids) ==
    IF ids = << >> THEN w
    ELSE PickupPhase(PickupStep(w, Head(ids)), Tail(ids))

EmptyResults ==
    [ collisions |-> << >>, projectile_hits |-> << >>, picked_powerups |-> << >>,
      destroyed_tanks |-> << >>, destroyed_obstacles |-> << >> ]

\* the world at the start of the call
World(all_tanks, map, time, last_shot) ==
    [ ts |-> all_tanks, obstacles |-> map.obstacle_list, powerups |-> map.powerup_list,
      terrains |-> map.terrain_list, size |-> map.size, last_shot |-> last_shot,
      res |-> EmptyResults, moving |-> {}, prev |-> << >>, shots |-> << >>,
      collided |-> << >>, time |-> time, before |-> all_tanks, after_rotate |-> << >>,
      after_fire |-> << >>, after_move |-> << >>, after_collide |-> << >> ]

\* the tanks as a phase leaves them, kept for inspection
KeepRotate(w) == [w EXCEPT !.after_rotate = w.ts]

KeepFire(w) == [w EXCEPT !.after_fire = w.ts]

KeepMove(w) == [w EXCEPT !.after_move = w.ts]

KeepCollide(w) == [w EXCEPT !.after_collide = w.ts]

\* what the call leaves: the mutated tanks, map and shot times, the results
\* it returns, and its locals
Outcome(w) ==
    [ ts |-> w.ts, obstacles |-> w.obstacles, powerups |-> w.powerups,
      last_shot |-> w.last_shot, res |-> w.res,
      locals |-> [ moving_tanks |-> w.moving, previous_positions |-> w.prev,
                   shots |-> w.shots, collided |-> w.collided, before |-> w.before,
                   after_rotate |-> w.after_rotate, after_fire |-> w.after_fire,
                   after_move |-> w.after_move, after_collide |-> w.after_collide,
                   time |-> w.time ] ]

\* rotation, shots, movement, collisions, power-ups, in this order
process_physics_tick(all_tanks, actions, map, delta_time, time, last_shot) ==
    Outcome(
      PickupPhase(
        KeepCollide(CollisionPhase(
          KeepMove(MovePhase(
            KeepFire(FirePhase(
              KeepRotate(RotatePhase(World(all_tanks, map, time, last_shot),
                                     Ids(all_tanks), actions, delta_time)),
              Ids(all_tanks), actions, time)),
            Ids(all_tanks), actions, delta_time)),
          Ids(all_tanks))),
        Ids(all_tanks)))

----------------
(* visibility.py *)

\* a faulty variant: the cone follows the hull, not the barrel
InVisionConeOfHull(tank_heading, tank_barrel, vision_angle, angle_to_target) ==
    AngleDiffWithin(angle_to_target, normalize_angle(tank_heading), vision_angle \div 2)

is_in_vision_cone(tank_heading, tank_barrel, vision_angle, angle_to_target) ==
    LET view_direction == normalize_angle(tank_heading + tank_barrel)
    IN  \* angle_diff <= vision_angle / 2.0 (the archetypes' angles are even)
        AngleDiffWithin(angle_to_target, view_direction, vision_angle \div 2)

\* the entity at (ex, ey) is within the observer's range and cone
Sees(tank, ex, ey) ==
    /\ ~FartherThan(tank.x, tank.y, ex, ey, VisionRange(tank.tank_type))
    /\ is_in_vision_cone(tank.heading, tank.barrel_angle, VisionAngle(tank.tank_type),
                         Atan2Deg(ey - tank.y, ex - tank.x))

\* TankSensorData for observer i: the four lists, in the order of the scanned lists
check_visibility(i, all_tanks, obstacles, terrains, powerups) ==
    LET tank == all_tanks[i]
        SeenTank(j) ==
            [ id |-> j, team |-> all_tanks[j].team, tank_type |-> all_tanks[j].tank_type,
              x |-> all_tanks[j].x, y |-> all_tanks[j].y,
              is_damaged |-> 10 * all_tanks[j].hp < 3 * MaxHp(all_tanks[j].tank_type),
              heading |-> all_tanks[j].heading, barrel_angle |-> all_tanks[j].barrel_angle,
              distance2 |-> Dist2(tank.x, tank.y, all_tanks[j].x, all_tanks[j].y) ]
        TankOk(j) == /\ j # i
                     /\ ~(all_tanks[j].hp <= 0)
                     /\ Sees(tank, all_tanks[j].x, all_tanks[j].y)
        seen_ids == SelectSeq(Ids(all_tanks), TankOk)
        PowerOk(k) == Sees(tank, powerups[k].x, powerups[k].y)
        ObstOk(k)  == obstacles[k].is_alive /\ Sees(tank, obstacles[k].x, obstacles[k].y)
        TerrOk(k)  == Sees(tank, terrains[k].x, terrains[k].y)
        Idx(s) == [k \in 1..Len(s) |-> k]
    IN  [ seen_tanks     |-> [n \in 1..Len(seen_ids) |-> SeenTank(seen_ids[n])],
          seen_powerups  |-> SelectSeq(Idx(powerups), PowerOk),
          seen_obstacles |-> SelectSeq(Idx(obstacles), ObstOk),
          seen_terrains  |-> SelectSeq(Idx(terrains), TerrOk) ]

----------------------------------------------------------------------------
(* GameCore, the collaborator GameLoop drives (game_core.py) *)

Teams == {1, 2}

\* config: the tick from which sudden death is active
SuddenDeathTick == 2

\* config: get_sudden_death_damage()
SuddenDeathDamage == -50

\* config: a power-up is due every PowerupInterval ticks
PowerupInterval == 2

\* config.map_config.width and height, in map units
MapWidth == 200

MapHeight == 100

\* the teams GameCore believes alive
CoreLiveTeams(counts) == { tm \in Teams : counts[tm] > 0 }

can_continue_game(state, counts) ==
    state = "Running" /\ Cardinality(CoreLiveTeams(counts)) >= 2

\* start_game_loop(): the state it leaves and whether it succeeded
start_game_loop(state) ==
    IF state = "Initializing" THEN [ok |-> TRUE, state |-> "Running"]
    ELSE [ok |-> FALSE, state |-> state]

\* process_tick(): the new tick counter and the tick_info it answers
process_tick(t) ==
    LET n == IF t < MaxTick THEN t + 1 ELSE t
    IN  [ tick |-> n, sudden_death |-> n >= SuddenDeathTick,
          powerup_spawned |-> n % PowerupInterval = 0, game_continues |-> TRUE ]

update_team_count(counts, team, count) == [counts EXCEPT ![team] = count]

\* end_game(): the winning team, 0 for a draw
winner_team(counts) ==
    IF Cardinality(CoreLiveTeams(counts)) = 1
    THEN CHOOSE tm \in Teams : counts[tm] > 0
    ELSE 0

----------------------------------------------------------------------------
(* game_loop.py: the handlers of GameLoop, as functions of the state *)

\* ids: team 1 gets 1 .. TeamSize, team 2 gets TeamSize + 1 .. 2 * TeamSize
TankId(team, index) == (team - 1) * TeamSize + index + 1

\* _get_spawn_position, in hundredths
get_spawn_position(team, index) ==
    IF team = 1
    THEN << (50 + index * 15) * 100, (50 + index * 20) * 100 >>
    ELSE << (MapWidth - 100 + index * 15) * 100, (50 + index * 20) * 100 >>

\* _spawn_tanks: na tanks for team 1, nb for team 2, ty gives each id's archetype
spawn_tanks(na, nb, ty) ==
    LET ids == { TankId(1, k) : k \in 0..(na - 1) } \cup { TankId(2, k) : k \in 0..(nb - 1) }
        team(i)  == IF i <= TeamSize THEN 1 ELSE 2
        index(i) == IF i <= TeamSize THEN i - 1 ELSE i - TeamSize - 1
    IN  [ i \in ids |->
            NewTank(ty[i], team(i), get_spawn_position(team(i), index(i))[1],
                    get_spawn_position(team(i), index(i))[2]) ]

NewScoreboards(ts) ==
    [ i \in DOMAIN ts |-> [team |-> ts[i].team, damage_dealt |-> 0, tanks_killed |-> 0] ]

LiveCount(ts, tm) == Cardinality({ i \in DOMAIN ts : is_alive(ts[i]) /\ ts[i].team = tm })

\* the teams that have a live tank in the collection
LiveTeams(ts) == { tm \in Teams : LiveCount(ts, tm) > 0 }

\* _apply_sudden_death_damage
apply_sudden_death_damage(ts) ==
    LET damage == Abs(SuddenDeathDamage)
    IN  [ i \in DOMAIN ts |->
            IF is_alive(ts[i]) THEN apply_damage(ts[i], damage).tank ELSE ts[i] ]

\* a faulty variant: a tank's snapshot is taken when the tanks before it in
\* the list have already driven on
PrepareSensorDataInTurn(ts, map) ==
    [ i \in { j \in DOMAIN ts : is_alive(ts[j]) } |->
        check_visibility(i, [ j \in DOMAIN ts |->
                                IF j < i THEN [ts[j] EXCEPT !.x = @ + 100] ELSE ts[j] ],
                         map.obstacle_list, map.terrain_list, map.powerup_list) ]

\* _prepare_sensor_data: a snapshot for every live tank
prepare_sensor_data(ts, map) ==
    [ i \in { j \in DOMAIN ts : is_alive(ts[j]) } |->
        check_visibility(i, ts, map.obstacle_list, map.terrain_list, map.powerup_list) ]

\* the tanks _query_agents asks
Asked(ts, sensors) == { i \in DOMAIN sensors : i \in DOMAIN ts /\ is_alive(ts[i]) }

\* the conversion of _process_physics: an agent's answer becomes an
\* ActionCommand; the ammo it asks for is not parsed
ToActionCommand(action_dict) ==
    [ barrel_rotation_angle  |-> action_dict.barrel_rotation_angle,
      heading_rotation_angle |-> action_dict.heading_rotation_angle,
      move_speed             |-> action_dict.move_speed,
      ammo_to_load           |-> "NONE",
      should_fire            |-> action_dict.should_fire ]

actions_converted(actions) == [ i \in DOMAIN actions |-> ToActionCommand(actions[i]) ]

\* _process_physics, after the call: damage of every hit on a tank goes to the
\* first tank of the actions that asked to fire
RECURSIVE credit_hits(_, _, _, _)
credit_hits(sb, la, hits, actions) ==
    IF hits = << >> THEN [scoreboards |-> sb, last_attacker |-> la]
    ELSE LET hit == Head(hits)
             firing == { i \in DOMAIN actions : actions[i].should_fire }
         IN  IF hit.hit_tank_id = 0 \/ firing = {}
             THEN credit_hits(sb, la, Tail(hits), actions)
             ELSE LET tank_id == CHOOSE i \in firing : \A j \in firing : i <= j
                      sb1 == IF tank_id \in DOMAIN sb
                             THEN [sb EXCEPT ![tank_id] =
                                      [sb[tank_id] EXCEPT !.damage_dealt =
                                          sb[tank_id].damage_dealt + hit.damage_dealt]]
                             ELSE sb
                      la1 == (hit.hit_tank_id :> tank_id) @@ la
                  IN  credit_hits(sb1, la1, Tail(hits), actions)

\* kills credited to the last attackers of the tanks in dead (ids in order)
RECURSIVE credit_kills(_, _, _)
credit_kills(sb, la, dead) ==
    IF dead = << >> THEN sb
    ELSE LET tank_id == Head(dead)
             credited == tank_id \in DOMAIN la /\ la[tank_id] \in DOMAIN sb
         IN  credit_kills(IF credited
                          THEN [sb EXCEPT ![la[tank_id]] =
                                   [sb[la[tank_id]] EXCEPT !.tanks_killed =
                                       sb[la[tank_id]].tanks_killed + 1]]
                          ELSE sb,
                          la, Tail(dead))

\* a faulty variant: a tank at exactly 0 HP is kept
CheckDeathBelowZero(ts, sb, la) ==
    LET tanks_to_remove == { i \in DOMAIN ts : ts[i].hp < 0 }
    IN  [ tanks |-> [ i \in (DOMAIN ts) \ tanks_to_remove |-> ts[i] ],
          scoreboards |-> credit_kills(sb, la, SeqOfSet(tanks_to_remove)),
          removed |-> tanks_to_remove ]

\* _check_death_conditions
check_death_conditions(ts, sb, la) ==
    LET tanks_to_remove == { i \in DOMAIN ts : ~is_alive(ts[i]) }
    IN  [ tanks |-> [ i \in (DOMAIN ts) \ tanks_to_remove |-> ts[i] ],
          scoreboards |-> credit_kills(sb, la, SeqOfSet(tanks_to_remove)),
          removed |-> tanks_to_remove ]

\* _update_team_counts: only the teams that still have a live tank are reported
update_team_counts(counts, ts) ==
    [ tm \in Teams |->
        IF LiveCount(ts, tm) > 0 THEN update_team_count(counts, tm, LiveCount(ts, tm))[tm]
        ELSE counts[tm] ]

\* a faulty variant: the loop is started whatever initialize_game returned
StartRegardless(ok) == "start"

\* run_game: where it goes after initialize_game returned ok
AfterInitialize(ok) == IF ok THEN "start" ELSE "done"

----------------------------------------------------------------------------
(* The tick orchestrator: run_game, run_game_loop, _process_game_tick *)

NoLocals ==
    [ moving_tanks |-> {}, previous_positions |-> << >>, shots |-> << >>,
      collided |-> << >>, before |-> << >>, after_rotate |-> << >>,
      after_fire |-> << >>, after_move |-> << >>, after_collide |-> << >>,
      time |-> 0 ]

NoTickInfo ==
    [ tick |-> 0, sudden_death |-> FALSE, powerup_spawned |-> FALSE,
      game_continues |-> TRUE ]

EmptyMap ==
    [ obstacle_list |-> << >>, powerup_list |-> << >>, terrain_list |-> << >>,
      size |-> << MapWidth * 100, MapHeight * 100 >> ]

Cmd(h, b, s, f) ==
    [ heading_rotation_angle |-> h, barrel_rotation_angle |-> b, move_speed |-> s,
      ammo_to_load |-> "LIGHT", should_fire |-> f ]

\* what an agent may answer in the loop
AgentCommands == { Cmd(0, 0, 0, FALSE), Cmd(90, 0, 8, TRUE) }

\* every way the asked agents answer; one that fails is absent
Replies(asked, cmds) == UNION { [A -> cmds] : A \in SUBSET asked }

\* GameLoop() has been constructed
Init ==
    /\ gstate = "Idle"
    /\ tick = 0
    /\ tick_info = NoTickInfo
    /\ team_counts = [tm \in Teams |-> 0]
    /\ winner = -1
    /\ pc = "idle"
    /\ tanks = << >>
    /\ scoreboards = << >>
    /\ last_attacker = << >>
    /\ sensor_data_map = << >>
    /\ agent_actions = << >>
    /\ map_info = EmptyMap
    /\ last_shot_times = << >>
    /\ current_time = 0
    /\ results = EmptyResults
    /\ phys = NoLocals
    /\ removed = {}
    /\ init_ok = "none"
    /\ shot_log = << >>

\* run_game: initialize_game
InitializeGame ==
    /\ pc = "idle"
    /\ gstate' = "Initializing"
    /\ \E ok \in BOOLEAN, na \in 1..TeamSize, nb \in 0..TeamSize :
         /\ init_ok' = ok
         /\ pc' = AfterInitialize(ok)
         /\ IF ok
            THEN \E ty \in [1..(2 * TeamSize) -> TankTypes] :
                   /\ tanks' = spawn_tanks(na, nb, ty)
                   /\ scoreboards' = NewScoreboards(tanks')
                   /\ team_counts' = [tm \in Teams |-> IF tm = 1 THEN na ELSE nb]
            ELSE UNCHANGED << tanks, scoreboards, team_counts >>
    /\ UNCHANGED << tick, tick_info, winner, last_attacker, sensor_data_map,
                    agent_actions, map_info, last_shot_times, current_time, results,
                    phys, removed, shot_log >>

\* run_game_loop: start_game_loop
StartGameLoop ==
    /\ pc = "start"
    /\ gstate' = start_game_loop(gstate).state
    /\ pc' = IF start_game_loop(gstate).ok THEN "loop" ELSE "cleanup"
    /\ UNCHANGED << tick, tick_info, team_counts, winner, tanks, scoreboards,
                    last_attacker, sensor_data_map, agent_actions, map_info,
                    last_shot_times, current_time, results, phys, removed, init_ok,
                    shot_log >>

\* the while test holds: one more tick
ContinueLoop ==
    /\ pc = "loop"
    /\ can_continue_game(gstate, team_counts)
    /\ pc' = "tick"
    /\ UNCHANGED << gstate, tick, tick_info, team_counts, winner, tanks, scoreboards,
                    last_attacker, sensor_data_map, agent_actions, map_info,
                    last_shot_times, current_time, results, phys, removed, init_ok,
                    shot_log >>

\* 1. game_core.process_tick()
ProcessTick ==
    /\ pc = "tick"
    /\ tick_info' = process_tick(tick)
    /\ tick' = tick_info'.tick
    /\ pc' = "sudden"
    /\ UNCHANGED << gstate, team_counts, winner, tanks, scoreboards, last_attacker,
                    sensor_data_map, agent_actions, map_info, last_shot_times,
                    current_time, results, phys, removed, init_ok, shot_log >>

\* 2. sudden death
ApplySuddenDeathDamage ==
    /\ pc = "sudden"
    /\ tanks' = IF tick_info.sudden_death THEN apply_sudden_death_damage(tanks) ELSE tanks
    /\ pc' = "spawn"
    /\ UNCHANGED << gstate, tick, tick_info, team_counts, winner, scoreboards,
                    last_attacker, sensor_data_map, agent_actions, map_info,
                    last_shot_times, current_time, results, phys, removed, init_ok,
                    shot_log >>

\* 3. _spawn_powerups: nothing is spawned
SpawnPowerups ==
    /\ pc = "spawn"
    /\ pc' = "sensors"
    /\ UNCHANGED << gstate, tick, tick_info, team_counts, winner, tanks, scoreboards,
                    last_attacker, sensor_data_map, agent_actions, map_info,
                    last_shot_times, current_time, results, phys, removed, init_ok,
                    shot_log >>

\* 4. _prepare_sensor_data
PrepareSensorData ==
    /\ pc = "sensors"
    /\ sensor_data_map' = prepare_sensor_data(tanks, map_info)
    /\ pc' = "query"
    /\ UNCHANGED << gstate, tick, tick_info, team_counts, winner, tanks, scoreboards,
                    last_attacker, agent_actions, map_info, last_shot_times,
                    current_time, results, phys, removed, init_ok, shot_log >>

\* 5. _query_agents
QueryAgents ==
    /\ pc = "query"
    /\ agent_actions' \in Replies(Asked(tanks, sensor_data_map), AgentCommands)
    /\ pc' = "physics"
    /\ UNCHANGED << gstate, tick, tick_info, team_counts, winner, tanks, scoreboards,
                    last_attacker, sensor_data_map, map_info, last_shot_times,
                    current_time, results, phys, removed, init_ok, shot_log >>

\* 6. _process_physics: process_physics_tick is called with all_tanks, actions,
\* map_info and delta_time only; the call lacks current_time and
\* last_shot_times, raises TypeError before its body runs, and the handler
\* of _process_physics logs the error
ProcessPhysics ==
    /\ pc = "physics"
    /\ pc' = "deaths"
    /\ UNCHANGED << gstate, tick, tick_info, team_counts, winner, tanks, scoreboards,
                    last_attacker, sensor_data_map, agent_actions, map_info,
                    last_shot_times, current_time, results, phys, removed, init_ok,
                    shot_log >>

\* 7. _check_death_conditions
CheckDeathConditions ==
    /\ pc = "deaths"
    /\ LET d == check_death_conditions(tanks, scoreboards, last_attacker)
       IN  /\ tanks' = d.tanks
           /\ scoreboards' = d.scoreboards
           /\ removed' = removed \cup d.removed
    /\ pc' = "teams"
    /\ UNCHANGED << gstate, tick, tick_info, team_counts, winner, last_attacker,
                    sensor_data_map, agent_actions, map_info, last_shot_times,
                    current_time, results, phys, init_ok, shot_log >>

\* 8. _update_team_counts, then the test of tick_info["game_continues"]
UpdateTeamCounts ==
    /\ pc = "teams"
    /\ team_counts' = update_team_counts(team_counts, tanks)
    /\ pc' = IF tick_info.game_continues THEN "loop" ELSE "end"
    /\ sensor_data_map' = << >>
    /\ agent_actions' = << >>
    /\ UNCHANGED << gstate, tick, tick_info, winner, tanks, scoreboards, last_attacker,
                    map_info, last_shot_times, current_time, results, phys, removed,
                    init_ok, shot_log >>

\* the loop is left: end_game("normal")
EndGame ==
    /\ \/ pc = "end"
       \/ pc = "loop" /\ ~can_continue_game(gstate, team_counts)
    /\ gstate' = "Ended"
    /\ winner' = winner_team(team_counts)
    /\ pc' = "cleanup"
    /\ UNCHANGED << tick, tick_info, team_counts, tanks, scoreboards, last_attacker,
                    sensor_data_map, agent_actions, map_info, last_shot_times,
                    current_time, results, phys, removed, init_ok, shot_log >>

TickSteps == {"tick", "sudden", "spawn", "sensors", "query", "physics", "deaths", "teams"}

\* KeyboardInterrupt inside the loop: end_game("interrupted")
Interrupt ==
    /\ pc \in TickSteps \cup {"loop"}
    /\ gstate' = "Ended"
    /\ winner' = winner_team(team_counts)
    /\ pc' = "cleanup"
    /\ sensor_data_map' = << >>
    /\ agent_actions' = << >>
    /\ UNCHANGED << tick, tick_info, team_counts, tanks, scoreboards, last_attacker,
                    map_info, last_shot_times, current_time, results, phys, removed,
                    init_ok, shot_log >>

\* cleanup_game: _cleanup_resources
CleanupGame ==
    /\ pc = "cleanup"
    /\ tanks' = << >>
    /\ scoreboards' = << >>
    /\ last_attacker' = << >>
    /\ pc' = "done"
    /\ UNCHANGED << gstate, tick, tick_info, team_counts, winner, sensor_data_map,
                    agent_actions, map_info, last_shot_times, current_time, results,
                    phys, removed, init_ok, shot_log >>

\* the steps the driver takes by itself
Step ==
    \/ InitializeGame
    \/ StartGameLoop
    \/ ContinueLoop
    \/ ProcessTick
    \/ ApplySuddenDeathDamage
    \/ SpawnPowerups
    \/ PrepareSensorData
    \/ QueryAgents
    \/ ProcessPhysics
    \/ CheckDeathConditions
    \/ UpdateTeamCounts
    \/ EndGame
    \/ CleanupGame

Next == Step \/ Interrupt

Spec == Init /\ [][Next]_vars

\* the driver does not stall: as long as it has a step, it takes one
FairSpec == Init /\ [][Next]_vars /\ WF_vars(Step)

----------------------------------------------------------------------------
(* The engine under well-formed calls: steps 4 to 7 of the tick, with
   process_physics_tick given all six arguments.  One time unit passes per
   call (delta_time = 1), and last_shot_times lives across the calls. *)

\* a tank in the middle of a match
Tk(ty, tm, px, py, loaded, hp0, shield0) ==
    [NewTank(ty, tm, px, py) EXCEPT !.ammo_loaded = loaded, !.hp = hp0, !.shield = shield0]

\* the arena of the layouts, in hundredths
ArenaSize == << 3000, 2000 >>

\* two tanks face to face on open ground; tank 2 is fresh, worn, or was
\* brought to 0 by sudden death earlier in the tick
DuelLayouts ==
    { [ tanks |-> << Tk("LIGHT", 1, 500, 1000, "LONG_DISTANCE", 80, 30),
                     Tk("LIGHT", 2, 1900, 1000, "LIGHT", hp2, IF hp2 = 80 THEN 30 ELSE 0) >>,
        map |-> [ obstacle_list |-> << >>, powerup_list |-> << >>, terrain_list |-> << >>,
                  size |-> ArenaSize ] ] :
      hp2 \in {80, 20, 0} }

\* a tank in front of an obstacle, a power-up and a pond on its way, a heavy
\* tank at its side
FieldLayouts ==
    { [ tanks |-> << Tk("LIGHT", 1, 500, 1000, "LONG_DISTANCE", 45, 0),
                     Tk("HEAVY", 2, 500, 1700, "HEAVY", 150, 100) >>,
        map |-> [ obstacle_list |-> << [ id |-> 1, obstacle_type |-> oty, x |-> 2300,
                                         y |-> 1000, is_alive |-> TRUE ] >>,
                  powerup_list |-> << [ powerup_type |-> pty, x |-> 1000, y |-> 1000 ] >>,
                  terrain_list |-> << [ terrain_type |-> "Water", x |-> 1300, y |-> 1000,
                                        size |-> << 1000, 1000 >> ] >>,
                  size |-> ArenaSize ] ] :
      oty \in {"WALL", "TREE", "ANTI_TANK_SPIKE"}, pty \in {"MEDKIT", "SHIELD"} }

Layouts == DuelLayouts \cup FieldLayouts

\* what the agent of tank i may answer: drive on, back up, fire, turn north
DriveCommands(i) ==
    IF i = 1
    THEN { Cmd(0, 0, 10, FALSE), Cmd(0, 0, -10, FALSE), Cmd(0, 0, 0, TRUE),
           Cmd(90, 0, 0, FALSE) }
    ELSE { Cmd(0, 0, -10, FALSE), Cmd(0, 180, 0, TRUE) }

DriveReplies(asked) ==
    { f \in Replies(asked, UNION { DriveCommands(i) : i \in asked }) :
        \A i \in DOMAIN f : f[i] \in DriveCommands(i) }

PhysInit ==
    /\ gstate = "Running"
    /\ tick = 0
    /\ tick_info = NoTickInfo
    /\ team_counts = [tm \in Teams |-> 1]
    /\ winner = -1
    /\ pc = "p_sensors"
    /\ \E l \in Layouts :
         /\ tanks = l.tanks
         /\ map_info = l.map
    /\ scoreboards = NewScoreboards(tanks)
    /\ last_attacker = << >>
    /\ sensor_data_map = << >>
    /\ agent_actions = << >>
    /\ last_shot_times = [i \in DOMAIN tanks |-> -999]
    /\ current_time = 0
    /\ results = EmptyResults
    /\ phys = NoLocals
    /\ removed = {}
    /\ init_ok = TRUE
    /\ shot_log = [i \in DOMAIN tanks |-> << >>]

\* _prepare_sensor_data
Sense ==
    /\ pc = "p_sensors"
    /\ sensor_data_map' = prepare_sensor_data(tanks, map_info)
    /\ pc' = "p_query"
    /\ UNCHANGED << gstate, tick, tick_info, team_counts, winner, tanks, scoreboards,
                    last_attacker, agent_actions, map_info, last_shot_times,
                    current_time, results, phys, removed, init_ok, shot_log >>

\* _query_agents
Command ==
    /\ pc = "p_query"
    /\ current_time < MaxTime
    /\ agent_actions' \in DriveReplies(Asked(tanks, sensor_data_map))
    /\ pc' = "p_physics"
    /\ UNCHANGED << gstate, tick, tick_info, team_counts, winner, tanks, scoreboards,
                    last_attacker, sensor_data_map, map_info, last_shot_times,
                    current_time, results, phys, removed, init_ok, shot_log >>

\* the shots of a call, appended to the log of their shooters
LogShots(log, shots, before, time) ==
    [ i \in DOMAIN log |->
        IF \E n \in 1..Len(shots) : shots[n].shooter = i
        THEN Append(log[i], [time |-> time, ammo |-> before[i].ammo_loaded])
        ELSE log[i] ]

\* _process_physics with the clock and the shot times supplied
PhysicsTick ==
    /\ pc = "p_physics"
    /\ LET actions == actions_converted(agent_actions)
           r == process_physics_tick(tanks, actions, map_info, 1, current_time,
                                     last_shot_times)
           c == credit_hits(scoreboards, last_attacker, r.res.projectile_hits, actions)
       IN  /\ tanks' = r.ts
           /\ map_info' = [map_info EXCEPT !.obstacle_list = r.obstacles,
                                           !.powerup_list = r.powerups]
           /\ last_shot_times' = r.last_shot
           /\ results' = r.res
           /\ phys' = r.locals
           /\ scoreboards' = c.scoreboards
           /\ last_attacker' = c.last_attacker
           /\ shot_log' = LogShots(shot_log, r.locals.shots, tanks, current_time)
    /\ current_time' = current_time + 1
    /\ pc' = "p_deaths"
    /\ UNCHANGED << gstate, tick, tick_info, team_counts, winner, sensor_data_map,
                    agent_actions, removed, init_ok >>

\* _check_death_conditions
Deaths ==
    /\ pc = "p_deaths"
    /\ LET d == check_death_conditions(tanks, scoreboards, last_attacker)
       IN  /\ tanks' = d.tanks
           /\ scoreboards' = d.scoreboards
           /\ removed' = removed \cup d.removed
    /\ pc' = "p_sensors"
    /\ sensor_data_map' = << >>
    /\ agent_actions' = << >>
    /\ UNCHANGED << gstate, tick, tick_info, team_counts, winner, last_attacker,
                    map_info, last_shot_times, current_time, results, phys, init_ok,
                    shot_log >>

PhysNext == Sense \/ Command \/ PhysicsTick \/ Deaths

PhysSpec == PhysInit /\ [][PhysNext]_vars

----------------------------------------------------------------------------
(* The same steps on further layouts: a depot, a point-blank duel, a line of
   obstacles, a corner of the map *)

\* two tanks on either side of one power-up, both touching it; tank 1 is
\* 10 HP short of its maximum, or was brought to 0 earlier in the tick
SupplyLayouts ==
    { [ tanks |-> << Tk("LIGHT", 1, 700, 1000, "LIGHT", hp1, 30),
                     Tk("LIGHT", 2, 1300, 1000, "LIGHT", 80, 0) >>,
        map |-> [ obstacle_list |-> << >>,
                  powerup_list |-> << [ powerup_type |-> pty, x |-> 1000, y |-> 1000 ] >>,
                  terrain_list |-> << >>, size |-> ArenaSize ] ] :
      hp1 \in {70, 0}, pty \in {"MEDKIT", "SHIELD", "OVERCHARGE", "AMMO_LIGHT"} }

\* a heavy tank with its last round, or none (tank 2), at distance 4 behind a
\* light tank (tank 1), both looking east; the light tank is worn or fresh,
\* has long-distance rounds loaded or nothing
AmbushLayouts ==
    { [ tanks |-> << Tk("LIGHT", 1, 900, 1000, loaded1, hp1, 0),
                     [ Tk("HEAVY", 2, 500, 1000, "HEAVY", 150, 100) EXCEPT
                         !.ammo = [BaseAmmo("HEAVY") EXCEPT !["HEAVY"] = rounds],
                         !.is_overcharged = oc ] >>,
        map |-> [ obstacle_list |-> << >>, powerup_list |-> << >>,
                  terrain_list |-> << >>, size |-> ArenaSize ] ] :
      loaded1 \in {"NONE", "LONG_DISTANCE"}, hp1 \in {20, 80}, oc \in BOOLEAN,
      rounds \in {0, 1} }

\* a light tank (tank 1) looking east along a line of two obstacles, both
\* within the range of its long-distance rounds: the one at distance 15 comes
\* first in the obstacle list, the one at distance 9 second; a heavy tank
\* (tank 2) stands aside
LineLayouts ==
    { [ tanks |-> << Tk("LIGHT", 1, 500, 1000, "LONG_DISTANCE", 80, 30),
                     Tk("HEAVY", 2, 500, 1700, "HEAVY", 150, 100) >>,
        map |-> [ obstacle_list |-> << [ id |-> 1, obstacle_type |-> far_type, x |-> 2000,
                                         y |-> 1000, is_alive |-> TRUE ],
                                       [ id |-> 2, obstacle_type |-> near_type, x |-> 1400,
                                         y |-> 1000, is_alive |-> TRUE ] >>,
                  powerup_list |-> << >>, terrain_list |-> << >>, size |-> ArenaSize ] ] :
      far_type \in {"WALL", "TREE"}, near_type \in {"WALL", "TREE"} }

\* a light tank (tank 1) looking east with the west edge of the map, a tree at
\* the edge and a tank (tank 2) behind it: backing up at full speed from
\* x = 10 it ends over the edge, from x = 11 just inside the map, in both
\* cases on the tree and, where tank 2 stands near, on tank 2
CornerLayouts ==
    { [ tanks |-> << Tk("LIGHT", 1, x1, 1000, "LIGHT", 80, 30),
                     Tk("LIGHT", 2, 300, y2, "LIGHT", 80, 0) >>,
        map |-> [ obstacle_list |-> << [ id |-> 1, obstacle_type |-> "TREE", x |-> 200,
                                         y |-> 600, is_alive |-> TRUE ] >>,
                  powerup_list |-> << >>, terrain_list |-> << >>, size |-> ArenaSize ] ] :
      x1 \in {1000, 1100}, y2 \in {1400, 1800} }

DrillLayouts == SupplyLayouts \cup AmbushLayouts \cup LineLayouts \cup CornerLayouts

\* what the agent of a tank may answer: fire, back up, drive on
DrillCommands == { Cmd(0, 0, 0, TRUE), Cmd(0, 0, -10, FALSE), Cmd(0, 0, 10, FALSE) }

DrillInit ==
    /\ gstate = "Running"
    /\ tick = 0
    /\ tick_info = NoTickInfo
    /\ team_counts = [tm \in Teams |-> 1]
    /\ winner = -1
    /\ pc = "p_sensors"
    /\ \E l \in DrillLayouts :
         /\ tanks = l.tanks
         /\ map_info = l.map
    /\ scoreboards = NewScoreboards(tanks)
    /\ last_attacker = << >>
    /\ sensor_data_map = << >>
    /\ agent_actions = << >>
    /\ last_shot_times = [i \in DOMAIN tanks |-> -999]
    /\ current_time = 0
    /\ results = EmptyResults
    /\ phys = NoLocals
    /\ removed = {}
    /\ init_ok = TRUE
    /\ shot_log = [i \in DOMAIN tanks |-> << >>]

\* _query_agents
Order ==
    /\ pc = "p_query"
    /\ current_time < MaxDrill
    /\ agent_actions' \in Replies(Asked(tanks, sensor_data_map), DrillCommands)
    /\ pc' = "p_physics"
    /\ UNCHANGED << gstate, tick, tick_info, team_counts, winner, tanks, scoreboards,
                    last_attacker, sensor_data_map, map_info, last_shot_times,
                    current_time, results, phys, removed, init_ok, shot_log >>

DrillNext == Sense \/ Order \/ PhysicsTick \/ Deaths

DrillSpec == DrillInit /\ [][DrillNext]_vars

----------------------------------------------------------------------------
(* The same steps in a yard: a grove at the road *)

\* a light tank (tank 1) looking east at a tree at distance 9 and a wall or a
\* spike at distance 15 behind it, light rounds loaded (range 10, reload 1);
\* a heavy tank (tank 2) follows it at distance 5
GroveLayouts ==
    { [ tanks |-> << Tk("LIGHT", 1, 800, 1000, "LIGHT", 80, 30),
                     Tk("HEAVY", 2, 300, 1000, "HEAVY", 150, 100) >>,
        map |-> [ obstacle_list |-> << [ id |-> 1, obstacle_type |-> "TREE", x |-> 1700,
                                         y |-> 1000, is_alive |-> TRUE ],
                                       [ id |-> 2, obstacle_type |-> oty, x |-> 2300,
                                         y |-> 1000, is_alive |-> TRUE ] >>,
                  powerup_list |-> << >>, terrain_list |-> << >>, size |-> ArenaSize ] ] :
      oty \in {"WALL", "ANTI_TANK_SPIKE"} }

\* a light tank (tank 1) touching an ammunition crate, its magazines full or
\* one light round and one long-distance round short and out of heavy rounds,
\* with heavy or long-distance rounds loaded; a heavy tank (tank 2) with full
\* magazines away from it. Capacities are the archetypes' _max_ammo.
MagazineLayouts ==
    { [ tanks |-> << [ Tk("LIGHT", 1, 700, 1000, loaded1, 80, 30) EXCEPT !.ammo = stock ],
                     [ Tk("HEAVY", 2, 2500, 1600, "HEAVY", 150, 100) EXCEPT
                         !.ammo = MaxAmmo("HEAVY") ] >>,
        map |-> [ obstacle_list |-> << >>,
                  powerup_list |-> << [ powerup_type |-> pty, x |-> 1000, y |-> 1000 ] >>,
                  terrain_list |-> << >>, size |-> ArenaSize ] ] :
      loaded1 \in {"HEAVY", "LONG_DISTANCE"},
      stock \in { MaxAmmo("LIGHT"),
                  [MaxAmmo("LIGHT") EXCEPT !["HEAVY"] = 0, !["LIGHT"] = 14,
                                           !["LONG_DISTANCE"] = 1] },
      pty \in {"AMMO_HEAVY", "AMMO_LIGHT", "AMMO_LONG_DISTANCE"} }

YardLayouts == GroveLayouts \cup MagazineLayouts

YardInit ==
    /\ gstate = "Running"
    /\ tick = 0
    /\ tick_info = NoTickInfo
    /\ team_counts = [tm \in Teams |-> 1]
    /\ winner = -1
    /\ pc = "p_sensors"
    /\ \E l \in YardLayouts :
         /\ tanks = l.tanks
         /\ map_info = l.map
    /\ scoreboards = NewScoreboards(tanks)
    /\ last_attacker = << >>
    /\ sensor_data_map = << >>
    /\ agent_actions = << >>
    /\ last_shot_times = [i \in DOMAIN tanks |-> -999]
    /\ current_time = 0
    /\ results = EmptyResults
    /\ phys = NoLocals
    /\ removed = {}
    /\ init_ok = TRUE
    /\ shot_log = [i \in DOMAIN tanks |-> << >>]

YardSpec == YardInit /\ [][DrillNext]_vars

----------------------------------------------------------------------------
(* Properties of the tick orchestrator (checked under Spec and FairSpec) *)

\* C1: at the end of every tick of Running (the driver is back at the loop
\* test), if at most one team has live tanks the loop is left at once, so that
\* the game is Ended on that tick; and when exactly one team is alive there,
\* that team is the winner the end of the game records.
C1_EndsWhenOneTeamLeft ==
    /\ (pc = "loop" /\ gstate = "Running" /\ tick >= 1
            /\ Cardinality(LiveTeams(tanks)) <= 1)
         => ~can_continue_game(gstate, team_counts)
    /\ (pc = "loop" /\ gstate = "Running" /\ tick >= 1
            /\ Cardinality(LiveTeams(tanks)) = 1)
         => winner_team(team_counts) \in LiveTeams(tanks)

\* C2: every match that has entered Running eventually reaches Ended with a
\* result recorded (a winner team, or 0 for a draw).
C2_ReachesEnded ==
    (gstate = "Running") ~> (gstate = "Ended" /\ winner # -1)

\* C3: the state moves only along Idle -> Initializing -> Running -> Ended;
\* Running is entered only after initialize_game succeeded; once Ended, the
\* state stays Ended and no tick is processed (the tick counter stands and the
\* driver is at no step of a tick).
C3_StateOrder ==
    [][ /\ gstate' # gstate =>
              << gstate, gstate' >> \in { << "Idle", "Initializing" >>,
                                          << "Initializing", "Running" >>,
                                          << "Running", "Ended" >> }
        /\ (gstate' = "Running" /\ gstate # "Running") => init_ok = TRUE
        /\ gstate = "Ended" =>
              (gstate' = "Ended" /\ tick' = tick /\ pc' \notin TickSteps) ]_vars

\* a game that ran at least one tick has ended and been cleaned up
C3_Witness == gstate = "Ended" /\ tick >= 1 /\ pc = "done" /\ init_ok = TRUE

\* C4: at every tick boundary the live collection holds no tank with HP <= 0;
\* within a tick the collection changes only at the death step, which removes
\* exactly the tanks with HP <= 0; a removed tank never is in the collection
\* again.
C4_DeadRemovedAtTickEnd ==
    /\ [](pc = "loop" => \A i \in DOMAIN tanks : tanks[i].hp > 0)
    /\ [](removed \cap DOMAIN tanks = {})
    /\ [][ (pc \in TickSteps /\ DOMAIN tanks' # DOMAIN tanks) =>
              /\ pc = "deaths"
              /\ DOMAIN tanks' = { i \in DOMAIN tanks : tanks[i].hp > 0 } ]_vars

\* a tank died in a tick and was removed at its end, another one lives on
C4_Witness ==
    /\ pc = "loop"
    /\ removed # {}
    /\ tanks # << >>

\* C5: after every apply_damage and every power-up, each tank has
\* 0 <= hp <= max_hp and 0 <= shield <= max_shield.
C5_HpAndShieldInBounds ==
    \A i \in DOMAIN tanks :
        /\ 0 <= tanks[i].hp /\ tanks[i].hp <= MaxHp(tanks[i].tank_type)
        /\ 0 <= tanks[i].shield /\ tanks[i].shield <= MaxShield(tanks[i].tank_type)

----------------------------------------------------------------------------
(* Properties of the physics call and of the sensors (checked under PhysSpec) *)

\* the damages apply_damage is tried with: 0 .. MaxDamage
MaxDamage == 80

\* C6: apply_damage(tank, d) with d >= 0 takes from the shield first: if the
\* shield covers d, the HP stays and the shield loses d; otherwise the shield
\* becomes 0 and the HP loses d minus the shield it had; nothing else of the
\* tank changes, and it returns true exactly when the resulting HP is <= 0.
C6_ShieldAbsorbsFirst ==
    \A i \in DOMAIN tanks : \A d \in 0..MaxDamage :
        LET t == tanks[i]
            r == apply_damage(t, d)
        IN  /\ r.tank = [t EXCEPT !.shield = IF t.shield >= d THEN t.shield - d ELSE 0,
                                  !.hp = IF t.shield >= d THEN t.hp
                                         ELSE t.hp - (d - t.shield)]
            /\ r.destroyed = (r.tank.hp <= 0)

\* a collision of 25 met a shield of less than 25: the shield went to 0 and
\* the HP took the rest
C6_Witness ==
    /\ pc = "p_deaths"
    /\ \E n \in DOMAIN phys.collided :
         LET i == phys.collided[n]
         IN  /\ phys.after_move[i].shield \in 1..24
             /\ phys.after_collide[i].shield = 0
             /\ phys.after_collide[i].hp =
                    phys.after_move[i].hp - (25 - phys.after_move[i].shield)

\* C7: two successive shots of a tank are at least the reload time of its
\* loaded ammunition apart.
C7_ReloadBetweenShots ==
    \A i \in DOMAIN shot_log : \A k \in 1..(Len(shot_log[i]) - 1) :
        shot_log[i][k + 1].time - shot_log[i][k].time
            >= AmmoReloadTime(shot_log[i][k + 1].ammo)

\* a tank with slow ammunition has fired, waited, and fired again
C7_Witness ==
    \E i \in DOMAIN shot_log :
        /\ Len(shot_log[i]) >= 2
        /\ AmmoReloadTime(shot_log[i][2].ammo) >= 2

\* C8: when two live tanks both moved in the call and their footprints overlap
\* after the movement, the call leaves each of them at its own position of
\* before the movement and has taken 25 from each, once.
C8_BothMovingBackToOwnPlace ==
    pc = "p_deaths" =>
      \A i \in phys.moving_tanks : \A j \in phys.moving_tanks \ {i} :
        LET a == phys.after_move
            c == phys.after_collide
        IN  (/\ a[i].hp > 0 /\ a[j].hp > 0
             /\ rectangles_overlap(a[i].x, a[i].y, TankSize, a[j].x, a[j].y, TankSize))
            => /\ << c[i].x, c[i].y >> = phys.previous_positions[i]
               /\ << c[j].x, c[j].y >> = phys.previous_positions[j]
               /\ (a[i].hp + a[i].shield) - (c[i].hp + c[i].shield) = 25
               /\ (a[j].hp + a[j].shield) - (c[j].hp + c[j].shield) = 25

\* C9: after the collision phase a tank whose collision was resolved is at
\* exactly its position of before the movement, whatever the collision was,
\* and every other tank is where the movement phase left it.
C9_RevertIsExact ==
    pc = "p_deaths" =>
      \A i \in DOMAIN phys.after_collide :
        LET c == phys.after_collide[i]
        IN  IF \E n \in DOMAIN phys.collided : phys.collided[n] = i
            THEN << c.x, c.y >> = phys.previous_positions[i]
            ELSE << c.x, c.y >> = << phys.after_move[i].x, phys.after_move[i].y >>

\* C10: the snapshot of an observer holds exactly the other tanks with HP > 0,
\* the alive obstacles, the power-ups and the terrains that are within its
\* vision range and whose bearing is within half its vision angle of
\* normalize_angle(heading + barrel_angle); each of them once.
C10_SnapshotIsExact ==
    pc = "p_query" =>
      \A i \in DOMAIN sensor_data_map :
        LET o == tanks[i]
            s == sensor_data_map[i]
            r == VisionRange(o.tank_type) * 100
            Visible(ex, ey) ==
                /\ Dist2(o.x, o.y, ex, ey) <= r * r
                /\ AngleDiffWithin(Atan2Deg(ey - o.y, ex - o.x),
                                   normalize_angle(o.heading + o.barrel_angle),
                                   VisionAngle(o.tank_type) \div 2)
            Of(list) == { list[n] : n \in DOMAIN list }
            At(list) == { k \in DOMAIN list : Visible(list[k].x, list[k].y) }
        IN  /\ { s.seen_tanks[n].id : n \in DOMAIN s.seen_tanks }
                 = { j \in DOMAIN tanks :
                       j # i /\ tanks[j].hp > 0 /\ Visible(tanks[j].x, tanks[j].y) }
            /\ Of(s.seen_obstacles)
                 = { k \in At(map_info.obstacle_list) : map_info.obstacle_list[k].is_alive }
            /\ Of(s.seen_powerups) = At(map_info.powerup_list)
            /\ Of(s.seen_terrains) = At(map_info.terrain_list)
            /\ Len(s.seen_tanks)
                 = Cardinality({ s.seen_tanks[n].id : n \in DOMAIN s.seen_tanks })
            /\ Len(s.seen_obstacles) = Cardinality(Of(s.seen_obstacles))
            /\ Len(s.seen_powerups) = Cardinality(Of(s.seen_powerups))
            /\ Len(s.seen_terrains) = Cardinality(Of(s.seen_terrains))

\* an observer sees the power-up ahead of it, but neither the live tank at its
\* side (in range, outside the cone) nor the obstacle ahead (beyond its range)
C10_Witness ==
    /\ pc = "p_query"
    /\ {1, 2} \subseteq DOMAIN sensor_data_map
    /\ sensor_data_map[1].seen_powerups # << >>
    /\ sensor_data_map[1].seen_tanks = << >>
    /\ tanks[2].hp > 0
    /\ ~FartherThan(tanks[1].x, tanks[1].y, tanks[2].x, tanks[2].y,
                    VisionRange(tanks[1].tank_type))
    /\ sensor_data_map[1].seen_obstacles = << >>
    /\ \E k \in DOMAIN map_info.obstacle_list : map_info.obstacle_list[k].is_alive

\* C11: in the power-up phase every picked power-up was touched by the live
\* tank that picked it, its effect on that tank is clamped at the tank's
\* maximum (hp, shield, ammunition capacity), it is gone from the power-up list
\* after the call, no power-up is picked twice and no tank but the pickers is
\* changed; a live tank that touches a power-up nobody else picked picks one.
C11_PickupAppliedOnce ==
    [][ pc = "p_physics" =>
          LET before == phys'.after_collide
              pre    == map_info.powerup_list
              post   == map_info'.powerup_list
              picked == results'.picked_powerups
              Touches(t, p) ==
                  rectangles_overlap(t.x, t.y, TankSize, p.x, p.y, PowerUpSize)
              Pickers == { picked[n].tank_id : n \in DOMAIN picked }
              Effect(t, p) ==
                  LET v  == PowerUpValue(p.powerup_type)
                      ty == t.tank_type
                  IN  CASE p.powerup_type = "MEDKIT" ->
                             [t EXCEPT !.hp = IF t.hp + v > MaxHp(ty) THEN MaxHp(ty)
                                              ELSE t.hp + v]
                        [] p.powerup_type = "SHIELD" ->
                             [t EXCEPT !.shield = IF t.shield + v > MaxShield(ty)
                                                  THEN MaxShield(ty) ELSE t.shield + v]
                        [] p.powerup_type = "OVERCHARGE" ->
                             [t EXCEPT !.is_overcharged = TRUE]
                        [] p.powerup_type = "AMMO_LIGHT" ->
                             [t EXCEPT !.ammo =
                                 [t.ammo EXCEPT !["LIGHT"] =
                                     IF t.ammo["LIGHT"] + v > MaxAmmo(ty)["LIGHT"]
                                     THEN MaxAmmo(ty)["LIGHT"] ELSE t.ammo["LIGHT"] + v]]
          IN  /\ Len(post) = Len(pre) - Len(picked)
              /\ \A n \in DOMAIN picked :
                   LET i == picked[n].tank_id
                       p == picked[n].powerup
                   IN  /\ before[i].hp > 0
                       /\ Touches(before[i], p)
                       /\ \E k \in DOMAIN pre : pre[k] = p
                       /\ \A k \in DOMAIN post : post[k] # p
                       /\ tanks'[i] = Effect(before[i], p)
                       /\ \A m \in DOMAIN picked : m # n => picked[m].tank_id # i
              /\ \A i \in DOMAIN before :
                   /\ i \notin Pickers => tanks'[i] = before[i]
                   /\ (before[i].hp > 0 /\ \E k \in DOMAIN post : Touches(before[i], post[k]))
                        => i \in Pickers ]_vars

\* the tank 10 HP short of its maximum took the Medkit both tanks touch: it
\* is at its maximum, the other tank got nothing, the power-up is gone
C11_Witness ==
    /\ pc = "p_deaths"
    /\ Len(results.picked_powerups) = 1
    /\ results.picked_powerups[1].powerup.powerup_type = "MEDKIT"
    /\ LET i == results.picked_powerups[1].tank_id
       IN  /\ phys.after_collide[i].hp = MaxHp(tanks[i].tank_type) - 10
           /\ tanks[i].hp = MaxHp(tanks[i].tank_type)
           /\ \E j \in DOMAIN tanks :
                /\ j # i /\ tanks[j].hp > 0
                /\ rectangles_overlap(tanks[j].x, tanks[j].y, TankSize,
                                      results.picked_powerups[1].powerup.x,
                                      results.picked_powerups[1].powerup.y, PowerUpSize)
    /\ map_info.powerup_list = << >>

C13_KillGoesToShooter ==
    LET Hits(v) == { n \in DOMAIN phys.shots : phys.shots[n].hit.hit_tank_id = v }
        LastShooter(v) ==
            phys.shots[CHOOSE n \in Hits(v) : \A m \in Hits(v) : m <= n].shooter
    IN  (/\ pc = "p_sensors" /\ current_time = 1
         /\ \A v \in removed : phys.before[v].hp > 0 /\ Hits(v) # {})
        => \A k \in DOMAIN scoreboards :
             scoreboards[k].tanks_killed
               = Cardinality({ v \in removed : LastShooter(v) = k })

\* the angles normalize_angle is tried with: the directions the tanks look
\* in, shifted by up to MaxHalfTurns half turns either way
MaxHalfTurns == 3

\* C14: for every such angle x, normalize_angle(normalize_angle(x)) =
\* normalize_angle(x), the result differs from x by a multiple of 360, and it
\* lies in [-180, 180).
C14_NormalizeAngleRange ==
    \A i \in DOMAIN tanks : \A k \in (-MaxHalfTurns)..MaxHalfTurns :
        LET x == tanks[i].heading + tanks[i].barrel_angle + 180 * k
            r == normalize_angle(x)
        IN  /\ normalize_angle(r) = r
            /\ (r - x) % 360 = 0
            /\ -180 <= r /\ r < 180

C16_ShotCostsAndDeals ==
    [][ pc = "p_physics" =>
          LET loc == phys'
          IN  \A n \in DOMAIN loc.shots :
                LET i == loc.shots[n].shooter
                    a == tanks[i].ammo_loaded
                    v == loc.shots[n].hit.hit_tank_id
                    base == IF AmmoValue(a) < 0 THEN -AmmoValue(a) ELSE AmmoValue(a)
                    due == IF tanks[i].is_overcharged THEN 2 * base ELSE base
                IN  /\ loc.after_fire[i].ammo[a] = tanks[i].ammo[a] - 1
                    /\ \A b \in AmmoTypes \ {a} : loc.after_fire[i].ammo[b] = tanks[i].ammo[b]
                    /\ last_shot_times'[i] = current_time
                    /\ ~loc.after_fire[i].is_overcharged
                    /\ v # 0 =>
                         /\ loc.shots[n].hit.damage_dealt = due
                         /\ (\A m \in DOMAIN loc.shots : loc.shots[m].hit.hit_tank_id = v => m = n)
                              => (loc.after_rotate[v].shield + loc.after_rotate[v].hp)
                                   - (loc.after_fire[v].shield + loc.after_fire[v].hp)
                                 = due ]_vars

\* the heavy tank fired its last heavy round, not overcharged, at the fresh
\* enemy at distance 4: no round is left, the enemy has lost 40
C16_Witness ==
    /\ pc = "p_deaths"
    /\ \E n \in DOMAIN phys.shots :
         LET i == phys.shots[n].shooter
             v == phys.shots[n].hit.hit_tank_id
         IN  /\ phys.before[i].tank_type = "HEAVY"
             /\ phys.before[i].ammo_loaded = "HEAVY"
             /\ ~phys.before[i].is_overcharged
             /\ phys.before[i].ammo["HEAVY"] = 1
             /\ phys.after_fire[i].ammo["HEAVY"] = 0
             /\ v # 0
             /\ Dist2(phys.before[i].x, phys.before[i].y, phys.before[v].x, phys.before[v].y)
                  = 400 * 400
             /\ phys.before[v].hp = 80
             /\ phys.after_fire[v].hp = 40

\* C17: in a call, the first shot fired finds the tanks and obstacles as the
\* rotation phase left them; what it hits is one of the nearest among the
\* other tanks with HP > 0 and the alive obstacles that are within the range
\* of the ammunition and within 5 degrees of the shot, and it hits nothing
\* only when there is none.
C17_NearestLiveEntityIsHit ==
    [][ (pc = "p_physics" /\ phys'.shots # << >>) =>
          LET T   == phys'.after_rotate
              obs == map_info.obstacle_list
              i   == phys'.shots[1].shooter
              hit == phys'.shots[1].hit
              dir == T[i].heading + T[i].barrel_angle
              rng == AmmoRange(T[i].ammo_loaded)
              QT  == { j \in DOMAIN T \ {i} :
                         T[j].hp > 0 /\ InLineOfFire(T[i], T[j].x, T[j].y, rng, dir) }
              QO  == { k \in 1..Len(obs) :
                         obs[k].is_alive /\ InLineOfFire(T[i], obs[k].x, obs[k].y, rng, dir) }
              dT(j) == Dist2(T[i].x, T[i].y, T[j].x, T[j].y)
              dO(k) == Dist2(T[i].x, T[i].y, obs[k].x, obs[k].y)
              NearestAt(d) == (\A j \in QT : d <= dT(j)) /\ (\A k \in QO : d <= dO(k))
          IN  IF ~hit.is_hit THEN QT = {} /\ QO = {}
              ELSE IF hit.hit_tank_id # 0
              THEN hit.hit_tank_id \in QT /\ NearestAt(dT(hit.hit_tank_id))
              ELSE \E k \in QO : /\ obs[k].x = hit.hit_x /\ obs[k].y = hit.hit_y
                                 /\ NearestAt(dO(k)) ]_vars

\* C18: in a call in which one shot is fired and no tank collides, with the
\* qualifying entities of the shot as in C17: if an obstacle is nearer than
\* every other qualifying entity, then no tank's HP or shield changes in the
\* shots phase, and the obstacle is no longer alive after the call if it is a
\* Tree, while no obstacle's is_alive changes if it is a Wall or an
\* AntiTankSpike; if nothing qualifies, no tank's HP or shield and no
\* obstacle's is_alive changes and no hit is recorded.
C18_ObstacleAbsorbsShot ==
    [][ (pc = "p_physics" /\ Len(phys'.shots) = 1 /\ phys'.collided = << >>) =>
          LET T    == phys'.after_rotate
              obs  == map_info.obstacle_list
              obs2 == map_info'.obstacle_list
              i    == phys'.shots[1].shooter
              dir  == T[i].heading + T[i].barrel_angle
              rng  == AmmoRange(T[i].ammo_loaded)
              QT   == { j \in DOMAIN T \ {i} :
                          T[j].hp > 0 /\ InLineOfFire(T[i], T[j].x, T[j].y, rng, dir) }
              QO   == { k \in 1..Len(obs) :
                          obs[k].is_alive /\ InLineOfFire(T[i], obs[k].x, obs[k].y, rng, dir) }
              dT(j) == Dist2(T[i].x, T[i].y, T[j].x, T[j].y)
              dO(k) == Dist2(T[i].x, T[i].y, obs[k].x, obs[k].y)
              First(k) == /\ \A j \in QT : dO(k) < dT(j)
                          /\ \A k2 \in QO \ {k} : dO(k) < dO(k2)
              NoTankHurt == \A j \in DOMAIN T :
                               /\ phys'.after_fire[j].hp = T[j].hp
                               /\ phys'.after_fire[j].shield = T[j].shield
              Standing(K) == \A k \in K : obs2[k].is_alive = obs[k].is_alive
          IN  /\ \A k \in QO :
                   First(k) =>
                     /\ NoTankHurt
                     /\ IF obs[k].obstacle_type = "TREE"
                        THEN ~obs2[k].is_alive
                        ELSE Standing(1..Len(obs))
              /\ (QT = {} /\ QO = {}) =>
                   /\ NoTankHurt
                   /\ Standing(1..Len(obs))
                   /\ results'.projectile_hits = << >> ]_vars

\* C19: in a call, when a live tank that moved stands after the movement
\* phase inside the map and on a live tank that did not move, the collision
\* phase puts the moving tank back where it stood before it moved and takes
\* 10 off its shield and HP, and leaves the other tank where it is and takes
\* 25 off its shield and HP.
C19_RunIntoStandingTank ==
    [][ pc = "p_physics" =>
          LET loc == phys'
              M   == loc.after_move
              C   == loc.after_collide
              Sum(t) == t.shield + t.hp
          IN  \A i \in loc.moving_tanks : \A j \in DOMAIN tanks \ loc.moving_tanks :
                (/\ M[i].hp > 0 /\ M[j].hp > 0
                 /\ ~check_tank_boundary_collision(M[i], map_info.size)
                 /\ rectangles_overlap(M[i].x, M[i].y, TankSize, M[j].x, M[j].y, TankSize))
                => /\ C[i].x = loc.after_fire[i].x /\ C[i].y = loc.after_fire[i].y
                   /\ Sum(C[i]) = Sum(M[i]) - 10
                   /\ C[j].x = M[j].x /\ C[j].y = M[j].y
                   /\ Sum(C[j]) = Sum(M[j]) - 25 ]_vars

\* C20: in a call, the tanks examined in the collision phase are the live
\* tanks that moved; each has at most one collision recorded, and every tank
\* loses in the phase exactly the damage of its own recorded collision, or
\* nothing.  For the first tank examined, which finds the others where the
\* movement phase left them: out of bounds it gets the boundary collision, 25
\* damage, and fells no tree; else on another tank it gets a tank collision;
\* else on an alive obstacle it gets that obstacle's collision; else none.
C20_OneCollisionInFixedOrder ==
    [][ pc = "p_physics" =>
          LET loc  == phys'
              M    == loc.after_move
              C    == loc.after_collide
              obs  == map_info.obstacle_list
              cols == results'.collisions
              cd   == loc.collided
              Sum(t) == t.shield + t.hp
              Examined == { i \in loc.moving_tanks : M[i].hp > 0 }
              Shot == { loc.shots[n].hit.hit_obstacle_id : n \in DOMAIN loc.shots }
              On(i) == { k \in 1..Len(obs) :
                           /\ obs[k].is_alive /\ obs[k].id \notin Shot
                           /\ rectangles_overlap(M[i].x, M[i].y, TankSize,
                                                 obs[k].x, obs[k].y, ObstacleSize) }
              OutB(i) == \/ M[i].x - TankSize[1] \div 2 < 0
                         \/ M[i].x + TankSize[1] \div 2 > map_info.size[1]
                         \/ M[i].y - TankSize[2] \div 2 < 0
                         \/ M[i].y + TankSize[2] \div 2 > map_info.size[2]
              OnTank(i) == \E j \in DOMAIN M \ {i} :
                              rectangles_overlap(M[i].x, M[i].y, TankSize,
                                                 M[j].x, M[j].y, TankSize)
          IN  /\ Len(cols) = Len(cd)
              /\ \A n, m \in DOMAIN cd : cd[n] = cd[m] => n = m
              /\ \A n \in DOMAIN cd : cd[n] \in Examined
              /\ \A i \in DOMAIN M :
                   Sum(M[i]) - Sum(C[i])
                     = IF \E n \in DOMAIN cd : cd[n] = i
                       THEN cols[CHOOSE n \in DOMAIN cd : cd[n] = i].damage_to_tank1
                       ELSE 0
              /\ Examined # {} =>
                   LET f == CHOOSE i \in Examined : \A j \in Examined : i <= j
                   IN  IF OutB(f)
                       THEN /\ cd # << >> /\ cd[1] = f
                            /\ cols[1].collision_type = "TANK_BOUNDARY"
                            /\ cols[1].obstacle_destroyed = 0
                            /\ Sum(M[f]) - Sum(C[f]) = 25
                            /\ Examined = {f} =>
                                 \A k \in On(f) : map_info'.obstacle_list[k].is_alive
                       ELSE IF OnTank(f)
                       THEN /\ cd # << >> /\ cd[1] = f
                            /\ cols[1].collision_type \in {"TANK_TANK_MOVING", "TANK_TANK_STATIC"}
                            /\ cols[1].obstacle_destroyed = 0
                            /\ Examined = {f} =>
                                 \A k \in On(f) : map_info'.obstacle_list[k].is_alive
                       ELSE IF On(f) # {}
                       THEN /\ cd # << >> /\ cd[1] = f
                            /\ cols[1].collision_type \in {"TANK_WALL", "TANK_TREE", "TANK_SPIKE"}
                       ELSE \A n \in DOMAIN cd : cd[n] # f ]_vars

\* a tank backed up over the edge of the map, onto a tank and a tree at once:
\* it took the 25 of the boundary, once, and the tree stands
C20_Witness ==
    /\ pc = "p_deaths"
    /\ \E i \in phys.moving_tanks :
         /\ phys.after_move[i].x - TankSize[1] \div 2 < 0
         /\ \E j \in DOMAIN tanks \ {i} :
              rectangles_overlap(phys.after_move[i].x, phys.after_move[i].y, TankSize,
                                 phys.after_move[j].x, phys.after_move[j].y, TankSize)
         /\ \E k \in DOMAIN map_info.obstacle_list :
              /\ map_info.obstacle_list[k].obstacle_type = "TREE"
              /\ map_info.obstacle_list[k].is_alive
              /\ rectangles_overlap(phys.after_move[i].x, phys.after_move[i].y, TankSize,
                                    map_info.obstacle_list[k].x, map_info.obstacle_list[k].y,
                                    ObstacleSize)
         /\ phys.collided = << i >>
         /\ (phys.after_move[i].shield + phys.after_move[i].hp)
              - (phys.after_collide[i].shield + phys.after_collide[i].hp) = 25

\* C21: in every step the obstacle list keeps its length and every obstacle
\* its id, type and place; a Wall or AntiTankSpike is alive before and after;
\* an obstacle that is not alive stays so, and one that stops being alive is
\* a Tree a shot of the call hit or a tank of the call rammed.  In a call, an
\* obstacle hit by a shot and an obstacle a collision is recorded with was
\* alive before the call; in a sensor step no snapshot holds an obstacle
\* that is not alive.
C21_ObstacleTombstones ==
    [][ LET obs  == map_info.obstacle_list
            obs2 == map_info'.obstacle_list
        IN  /\ Len(obs2) = Len(obs)
            /\ \A k \in 1..Len(obs) :
                 /\ obs2[k].id = obs[k].id
                 /\ obs2[k].obstacle_type = obs[k].obstacle_type
                 /\ obs2[k].x = obs[k].x /\ obs2[k].y = obs[k].y
                 /\ obs[k].obstacle_type # "TREE" => obs[k].is_alive /\ obs2[k].is_alive
                 /\ ~obs[k].is_alive => ~obs2[k].is_alive
                 /\ (obs[k].is_alive /\ ~obs2[k].is_alive) =>
                      /\ obs[k].obstacle_type = "TREE"
                      /\ pc = "p_physics"
                      /\ \/ \E n \in DOMAIN phys'.shots :
                               phys'.shots[n].hit.hit_obstacle_id = obs[k].id
                         \/ \E n \in DOMAIN results'.collisions :
                               results'.collisions[n].obstacle_destroyed = obs[k].id
            /\ pc = "p_physics" =>
                 /\ \A n \in DOMAIN phys'.shots :
                      (phys'.shots[n].hit.is_hit /\ phys'.shots[n].hit.hit_tank_id = 0) =>
                         \E k \in 1..Len(obs) :
                            /\ obs[k].is_alive
                            /\ obs[k].x = phys'.shots[n].hit.hit_x
                            /\ obs[k].y = phys'.shots[n].hit.hit_y
                 /\ \A n \in DOMAIN results'.collisions :
                      results'.collisions[n].collision_type
                          \in {"TANK_WALL", "TANK_TREE", "TANK_SPIKE"} =>
                         \E k \in 1..Len(obs) :
                            /\ obs[k].is_alive
                            /\ rectangles_overlap(phys'.after_move[phys'.collided[n]].x,
                                                  phys'.after_move[phys'.collided[n]].y,
                                                  TankSize, obs[k].x, obs[k].y, ObstacleSize)
            /\ pc = "p_sensors" =>
                 \A i \in DOMAIN sensor_data_map' :
                    \A n \in DOMAIN sensor_data_map'[i].seen_obstacles :
                       obs[sensor_data_map'[i].seen_obstacles[n]].is_alive ]_vars

\* the tree fell in an earlier call; in this one a tank drove onto its place
\* and no collision was recorded, and a shot went over it to the obstacle
\* behind, or further
C21_Witness ==
    /\ pc = "p_deaths"
    /\ results.destroyed_obstacles = << >>
    /\ results.collisions = << >>
    /\ \E k \in DOMAIN map_info.obstacle_list :
         /\ ~map_info.obstacle_list[k].is_alive
         /\ \E i \in phys.moving_tanks :
              rectangles_overlap(tanks[i].x, tanks[i].y, TankSize,
                                 map_info.obstacle_list[k].x, map_info.obstacle_list[k].y,
                                 ObstacleSize)

\* C22: in a call the phases follow one another for all tanks: a tank hit by
\* a shot lies in the line of fire the shooter has after the rotation phase,
\* at the place the tank had before the movement phase; damage is applied
\* after the collision phase only, so every tank that is alive when the call
\* begins and is told a speed takes part in the movement phase and has lost
\* no HP or shield when the firing phase ends; a power-up is picked up by a
\* tank that touches it where the collision phase left it.
C22_PhasesInOrder ==
    [][ pc = "p_physics" =>
          LET loc  == phys'
              acts == actions_converted(agent_actions)
          IN  /\ \A n \in DOMAIN loc.shots :
                   LET i == loc.shots[n].shooter
                       v == loc.shots[n].hit.hit_tank_id
                   IN  v # 0 =>
                         InLineOfFire([tanks[i] EXCEPT
                                          !.heading = loc.after_rotate[i].heading,
                                          !.barrel_angle = loc.after_rotate[i].barrel_angle],
                                      tanks[v].x, tanks[v].y,
                                      AmmoRange(tanks[i].ammo_loaded),
                                      loc.after_rotate[i].heading
                                        + loc.after_rotate[i].barrel_angle)
              /\ \A i \in DOMAIN tanks :
                   tanks[i].hp > 0 =>
                     /\ loc.after_fire[i].hp = tanks[i].hp
                     /\ loc.after_fire[i].shield = tanks[i].shield
                     /\ (i \in DOMAIN acts /\ acts[i].move_speed # 0) => i \in loc.moving_tanks
              /\ \A n \in DOMAIN results'.picked_powerups :
                   LET q == results'.picked_powerups[n]
                   IN  rectangles_overlap(loc.after_collide[q.tank_id].x,
                                          loc.after_collide[q.tank_id].y, TankSize,
                                          q.powerup.x, q.powerup.y, PowerUpSize) ]_vars

\* C23: in a call, a live tank whose agent asks to load an ammunition type
\* of which the tank has a round and which is not the loaded one has that
\* type loaded after the call, and its reload time begins anew; a tank whose
\* agent asks for the loaded type, or for a type it has no round of, has
\* the same type loaded as before.
C23_LoadsRequestedAmmo ==
    [][ pc = "p_physics" =>
          \A i \in DOMAIN agent_actions :
             LET a == agent_actions[i].ammo_to_load
             IN  (tanks[i].hp > 0 /\ a \in AmmoTypes) =>
                   IF tanks[i].ammo[a] > 0 /\ a # tanks[i].ammo_loaded
                   THEN /\ tanks'[i].ammo_loaded = a
                        /\ last_shot_times'[i] = current_time
                   ELSE tanks'[i].ammo_loaded = tanks[i].ammo_loaded ]_vars

\* C24: in a call, every live tank with a command has after the rotation
\* phase the heading normalize_angle(old heading + d), d being the commanded
\* heading value cut to +/- the heading spin rate, and the barrel angle
\* normalize_angle(old barrel angle + e), e being the commanded barrel value
\* cut to +/- the barrel spin rate; a commanded 0 leaves the angle as it was.
C24_RotationByDelta ==
    [][ pc = "p_physics" =>
          LET acts == actions_converted(agent_actions)
              Cut(d, most) == IF d > most THEN most ELSE IF d < -most THEN -most ELSE d
          IN  \A i \in DOMAIN acts :
                tanks[i].hp > 0 =>
                  /\ phys'.after_rotate[i].heading
                       = normalize_angle(tanks[i].heading
                            + Cut(acts[i].heading_rotation_angle,
                                  HeadingSpinRate(tanks[i].tank_type)))
                  /\ phys'.after_rotate[i].barrel_angle
                       = normalize_angle(tanks[i].barrel_angle
                            + Cut(acts[i].barrel_rotation_angle,
                                  BarrelSpinRate(tanks[i].tank_type))) ]_vars

\* C25: in a call, a tank that is alive when the movement phase begins and
\* whose place before the move lies in a terrain patch loses in the movement
\* phase exactly the deal_damage of the first such patch of the terrain list,
\* whatever speed it is told and also when it is told none; a tank on no
\* patch loses nothing in the phase.
C25_TerrainDamageEveryTick ==
    [][ pc = "p_physics" =>
          LET loc == phys'
              Sum(t) == t.shield + t.hp
          IN  \A i \in DOMAIN tanks :
                loc.after_fire[i].hp > 0 =>
                  LET k == get_terrain_at_position(tanks[i].x, tanks[i].y,
                                                   map_info.terrain_list)
                  IN  Sum(loc.after_fire[i]) - Sum(loc.after_move[i])
                        = IF k = 0 THEN 0
                          ELSE TerrainDamage(map_info.terrain_list[k].terrain_type) ]_vars

\* C26: in a call, what a tank does is settled by the state the call begins
\* with, not by damage dealt to it during the call: every tank that is alive
\* then, is told to fire, has a type loaded, a round of it and its reload
\* time behind it fires, and every tank that is alive then and is told a
\* speed moves, wherever it stands in the tank list.
C26_DamageAppliedAfterActing ==
    [][ pc = "p_physics" =>
          LET acts == actions_converted(agent_actions)
              Shooters == { phys'.shots[n].shooter : n \in DOMAIN phys'.shots }
          IN  \A i \in DOMAIN acts :
                tanks[i].hp > 0 =>
                  /\ (/\ acts[i].should_fire
                      /\ tanks[i].ammo_loaded # "NONE"
                      /\ tanks[i].ammo[tanks[i].ammo_loaded] > 0
                      /\ current_time - last_shot_times[i]
                           >= AmmoReloadTime(tanks[i].ammo_loaded))
                     => i \in Shooters
                  /\ acts[i].move_speed # 0 => i \in phys'.moving_tanks ]_vars

\* C27: while the agents are asked and until the commands are applied, every
\* live tank has a snapshot, and each snapshot is what that tank sees of the
\* tanks, obstacles, terrains and power-ups as they are then, which is as
\* they were when the snapshots were taken; the tanks and the map change
\* neither when the snapshots are taken nor when the agents are asked, and
\* asking the agents leaves the snapshots as they are.
C27_SnapshotsBeforeCommands ==
    [][ pc' \in {"query", "physics", "p_query", "p_physics"} =>
          /\ DOMAIN sensor_data_map' = { i \in DOMAIN tanks' : tanks'[i].hp > 0 }
          /\ \A i \in DOMAIN sensor_data_map' :
               sensor_data_map'[i]
                 = check_visibility(i, tanks', map_info'.obstacle_list,
                                    map_info'.terrain_list, map_info'.powerup_list)
          /\ tanks' = tanks
          /\ map_info' = map_info
          /\ last_shot_times' = last_shot_times
          /\ pc \in {"query", "p_query"} =>
               /\ sensor_data_map' = sensor_data_map
               /\ DOMAIN agent_actions' \subseteq DOMAIN sensor_data_map ]_vars

\* in the second tick both agents have answered and the commands are about
\* to be applied; tank 2 has tank 1 in its snapshot where tank 1 stands now,
\* which is not where it stood a tick ago
C27_Witness ==
    /\ pc = "p_physics"
    /\ current_time = 1
    /\ DOMAIN agent_actions = DOMAIN tanks
    /\ \E i \in DOMAIN sensor_data_map :
         \E n \in DOMAIN sensor_data_map[i].seen_tanks :
            LET st == sensor_data_map[i].seen_tanks[n]
            IN  /\ st.x = tanks[st.id].x
                /\ st.x # phys.before[st.id].x

\* C28: applying the commands of a tick raises every tank's damage_dealt by
\* the damage of the hit on a tank that its own shot of that tick made (a
\* tank fires at most one shot in a tick), and by nothing if it made none.
C28_DamageDealtByOwnShots ==
    [][ pc = "p_physics" =>
          \A k \in DOMAIN scoreboards :
             LET Own == { n \in DOMAIN phys'.shots :
                            /\ phys'.shots[n].shooter = k
                            /\ phys'.shots[n].hit.hit_tank_id # 0 }
             IN  scoreboards'[k].damage_dealt - scoreboards[k].damage_dealt
                   = IF Own = {} THEN 0
                     ELSE phys'.shots[CHOOSE n \in Own : TRUE].hit.damage_dealt ]_vars

\* C29: when every count of every tank is between 0 and the capacity of the
\* tank's archetype for that type, it is so after any step; and applying the
\* commands of a tick leaves each count as it was, less one if the tank fired
\* and the type is the loaded one, plus the crate's value up to the capacity
\* if the tank picked up a crate of that type: the other types are untouched.
C29_AmmoWithinCapacity ==
    [][ LET InCapacity(ts) ==
                \A i \in DOMAIN ts : \A a \in AmmoTypes :
                    ts[i].ammo[a] >= 0 /\ ts[i].ammo[a] <= MaxAmmo(ts[i].tank_type)[a]
            IsAmmo(pty) == pty \notin {"MEDKIT", "SHIELD", "OVERCHARGE"}
        IN  InCapacity(tanks) =>
              /\ InCapacity(tanks')
              /\ pc = "p_physics" =>
                   \A i \in DOMAIN tanks : \A a \in AmmoTypes :
                      LET fired == /\ \E n \in DOMAIN phys'.shots : phys'.shots[n].shooter = i
                                   /\ tanks[i].ammo_loaded = a
                          crates == { n \in DOMAIN results'.picked_powerups :
                                        LET pk == results'.picked_powerups[n]
                                        IN  /\ pk.tank_id = i
                                            /\ IsAmmo(pk.powerup.powerup_type)
                                            /\ PowerUpAmmoType(pk.powerup.powerup_type) = a }
                          left == tanks[i].ammo[a] - (IF fired THEN 1 ELSE 0)
                      IN  /\ Cardinality(crates) <= 1
                          /\ tanks'[i].ammo[a]
                               = IF crates = {} THEN left
                                 ELSE LET pk == results'.picked_powerups[CHOOSE n \in crates : TRUE]
                                      IN  Min(left + PowerUpValue(pk.powerup.powerup_type),
                                              MaxAmmo(tanks[i].tank_type)[a]) ]_vars

\* tank 1 has fired its last long-distance round and, with 14 light rounds,
\* picked up a crate of 5: it has 15, the capacity, and no long-distance round
C29_Witness ==
    /\ pc = "p_deaths"
    /\ \E n \in DOMAIN phys.shots : phys.shots[n].shooter = 1
    /\ phys.before[1].ammo_loaded = "LONG_DISTANCE"
    /\ phys.before[1].ammo["LONG_DISTANCE"] = 1
    /\ tanks[1].ammo["LONG_DISTANCE"] = 0
    /\ phys.before[1].ammo["LIGHT"] = 14
    /\ tanks[1].ammo["LIGHT"] = 15
    /\ \E n \in DOMAIN results.picked_powerups :
          /\ results.picked_powerups[n].tank_id = 1
          /\ results.picked_powerups[n].powerup.powerup_type = "AMMO_LIGHT"

\* C30: if the footprint of every live tank lies within the map when the
\* commands of a tick are applied, then so does the footprint of every tank
\* that is live when the collisions of that tick have been resolved.
C30_LiveTanksStayInBounds ==
    [][ LET Within(t) == /\ t.x - TankSize[1] \div 2 >= 0
                         /\ t.x + TankSize[1] \div 2 <= map_info.size[1]
                         /\ t.y - TankSize[2] \div 2 >= 0
                         /\ t.y + TankSize[2] \div 2 <= map_info.size[2]
        IN  (/\ pc = "p_physics"
             /\ \A i \in DOMAIN tanks : tanks[i].hp > 0 => Within(tanks[i]))
            => \A i \in DOMAIN phys'.after_collide :
                  phys'.after_collide[i].hp > 0 => Within(phys'.after_collide[i]) ]_vars

\* tank 1 drove back over the edge of the map and was put back; then tank 2,
\* driving forward into it, was put back too and took tank 1 with it: both
\* are live and stand where tank 2 stood, which is not where tank 1 stood
C30_Witness ==
    /\ pc = "p_deaths"
    /\ phys.moving_tanks = {1, 2}
    /\ check_tank_boundary_collision(phys.after_move[1], map_info.size)
    /\ phys.after_collide[1].hp > 0 /\ phys.after_collide[2].hp > 0
    /\ phys.after_collide[1].x = phys.before[2].x
    /\ phys.after_collide[1].x # phys.before[1].x
    /\ \E n \in DOMAIN results.collisions :
          results.collisions[n].collision_type = "TANK_BOUNDARY"
    /\ \E n \in DOMAIN results.collisions :
          results.collisions[n].collision_type = "TANK_TANK_MOVING"

====
